---- MODULE Spec2Model ----
(***************************************************************************)
(* A model of MicroStack's cluster trust bootstrap:                        *)
(*   - the join server      tools/cluster/cluster/daemon.py                *)
(*   - the join client      tools/cluster/cluster/client.py                *)
(*   - the token question   tools/init/init/questions/clustering.py        *)
(*   - the question driver  tools/init/init/questions/question.py          *)
(* Specifications:                                                         *)
(*   Spec            the join server handling POST /join one by one        *)
(*   SpecConcurrent  the join server handling requests concurrently        *)
(*   SpecInit        a node answering the ConnectionString question and    *)
(*                   then running microstack_join                          *)
(*   SpecToken       add-compute printing tokens, pasted at the question   *)
(*   SpecIssuer      add-compute and the Identity Provider's clock         *)
(*   SpecTLS         calls of the certificate provisioner                  *)
(*   SpecCluster     issue, paste, join and join again, end to end         *)
(*   SpecHostname    the hostname of a token through _validate             *)
(*   SpecQuestion    a question constructed and asked                      *)
(*   SpecLaunch      check_server() of tools/launch/launch/main.py         *)
(***************************************************************************)
EXTENDS Integers, Sequences, FiniteSets, TLC

VARIABLES
    \* ---- join server (daemon.py) ----
    req,        \* the request being handled: [version, ctype, body]
    spc,        \* position of the handler in join()
    resp,       \* the response sent for req (NoResp while handling)
    steps,      \* what the handler has done for req, in order (history)
    idpValid,   \* Identity Provider: the credentials it currently accepts
    \* ---- compute node (init + microstack_join) ----
    config,     \* snap configuration of the node: key -> value
    ipc,        \* position of Clustering.yes / ConnectionString.ask
    interactive,\* ConnectionString.interactive
    tries,      \* iterations of the ask() loop used so far
    answer,     \* the answer the last iteration validated
    conn_info,  \* ConnectionString._conn_info (a dict once a token validates)
    net,        \* the network calls made by the join client, in order
    outcome,    \* how the run ended ("" while it is running)
    sent_at,    \* the clock when the join client last posted (history)
    wire,       \* what the join client's last urlopen met (history)
    \* ---- control node: add-compute and the Identity Provider ----
    clock,      \* the issuer's UTC clock, in minutes
    ctl,        \* snap configuration of the control node
    creds,      \* Identity Provider: the application credentials it holds
    idp_log,    \* the calls add-compute has made to the Identity Provider
    printed,    \* the connection strings add-compute has printed
    add_out,    \* how each run of add-compute ended, in order
    \* ---- control node: the certificate provisioner (cluster_tls.py) ----
    disk,       \* the certificate and key files: what each holds
    prov,       \* the calls of generate_selfsigned: position and locals
    keygen,     \* the number of key pairs generated so far
    \* ---- join server, requests handled concurrently (daemon.py) ----
    handlers,   \* the calls of join() in progress: position, request, response
    frames,     \* the local variables of the calls of join()
    \* ---- a boolean question (question.py) ----
    bq,         \* the call of ask(): position, default, tries, calls made
    \* ---- hostname validation (clustering.py) ----
    hv,         \* a hostname of a token and what _validate made of it
    \* ---- launch (tools/launch/launch/main.py) ----
    chk         \* the call of check_server(): position, arguments and locals

srvVars == <<req, spc, resp, steps, idpValid>>
cliVars == <<config, ipc, interactive, tries, answer, conn_info, net, outcome,
             sent_at, wire>>
issVars == <<clock, ctl, creds, idp_log, printed, add_out>>
tlsVars == <<disk, prov, keygen>>
conVars == <<handlers, frames>>
askVars == <<bq, hv, chk>>
vars == <<req, spc, resp, steps, idpValid,
          config, ipc, interactive, tries, answer, conn_info, net, outcome,
          sent_at, wire, clock, ctl, creds, idp_log, printed, add_out,
          disk, prov, keygen, handlers, frames, bq, hv, chk>>

(***************************************************************************)
(* Bounds of the model.                                                    *)
(***************************************************************************)
MaxMajor == 2      \* request major versions 0..MaxMajor
MaxMinor == 1      \* request minor and patch versions 0..MaxMinor
LenSlack == 1      \* token field lengths within LenSlack of the required one
MaxRuns == 2       \* runs of add-compute
MaxTicks == 2      \* steps of the issuer's clock
TickMinutes == 10  \* minutes in a step of the clock
NumCalls == 2      \* calls of the certificate provisioner
NumRequests == 2   \* requests the join server handles concurrently
MaxPosts == 2      \* runs of the join client against the join server

(***************************************************************************)
(* JSON / Python values: a tagged record, so that None, "" and a string    *)
(* stay distinct.                                                          *)
(***************************************************************************)
PyNone == [t |-> "none", v |-> <<>>]
PyStr(s) == [t |-> "str", v |-> s]

\* Python truthiness, as used by `not credential_id`.
Truthy(x) == x.t = "str" /\ x.v # <<>>

\* A text is a sequence of characters; Fill(c, n) is c repeated n times.
Fill(c, n) == [i \in 1..n |-> c]

\* The lengths of a credential id (a UUID in hex) and of its secret.
UUID_LEN == 32
SECRET_LEN == 32

(***************************************************************************)
(* daemon.py: the API exceptions and the responses made from them.         *)
(***************************************************************************)
API_VERSION_MAJOR == 1

APIExceptions ==
    {"APIVersionMissing", "APIVersionInvalid", "APIVersionDropped",
     "APIVersionNotImplemented", "InvalidJSONInRequest",
     "IncorrectContentType", "MissingAuthDataInRequest",
     "InvalidAuthDataFormatInRequest", "InvalidAuthDataInRequest",
     "AuthorizationFailed", "UnexpectedError"}

status_code(e) ==
    CASE e = "APIVersionMissing" -> 400
      [] e = "APIVersionInvalid" -> 400
      [] e = "APIVersionDropped" -> 410
      [] e = "APIVersionNotImplemented" -> 501
      [] e = "InvalidJSONInRequest" -> 400
      [] e = "IncorrectContentType" -> 400
      [] e = "MissingAuthDataInRequest" -> 400
      [] e = "InvalidAuthDataFormatInRequest" -> 400
      [] e = "InvalidAuthDataInRequest" -> 400
      [] e = "AuthorizationFailed" -> 401
      [] e = "UnexpectedError" -> 500

\* jsonify(error.to_dict()) with response.status_code = error.status_code.
\* The body is {message: <the class's message>}; the message is named by
\* its class.
handle_api_exception(e) ==
    [status |-> status_code(e), json |-> TRUE, message |-> e, config |-> FALSE]

\* What Flask answers when the view raises an exception no errorhandler is
\* registered for, or returns a value that is not a response: its own
\* 500 Internal Server Error page, which is not a JSON {message} body.
FrameworkError ==
    [status |-> 500, json |-> FALSE, message |-> "Internal Server Error",
     config |-> FALSE]

\* json.dumps(join_info()): Flask sends a returned string with status 200.
ConfigResponse ==
    [status |-> 200, json |-> TRUE, message |-> "", config |-> TRUE]

NoResp == [status |-> 0, json |-> FALSE, message |-> "", config |-> FALSE]

(***************************************************************************)
(* Requests.  An API-Version header is absent or a dot-separated list of   *)
(* parts, each a number or not.                                            *)
(***************************************************************************)
Num(n) == [num |-> TRUE, val |-> n]
NaN == [num |-> FALSE, val |-> 0]

NoHeader == <<[num |-> FALSE, val |-> -1]>>

SemverHeaders ==
    {<<Num(a), Num(b), Num(c)>> : a \in 0..MaxMajor, b \in 0..MaxMinor,
                                   c \in 0..MaxMinor}

\* "abc", "1.0", "1.0.x", "1.0.0.0"
BadHeaders ==
    {<<NaN>>, <<Num(1), Num(0)>>, <<Num(1), Num(0), NaN>>,
     <<Num(1), Num(0), Num(0), Num(0)>>}

Headers == {NoHeader} \cup SemverHeaders \cup BadHeaders

\* semantic_version.Version(s): raises ValueError unless s is
\* major.minor.patch with numeric parts.
IsSemver_Partial(h) == Len(h) \in {2, 3} /\ \A i \in 1..Len(h) : h[i].num

IsSemver(h) == Len(h) = 3 /\ \A i \in 1..3 : h[i].num
Major(h) == h[1].val

NoContentType == "<none>"
ContentTypes == {NoContentType, "application/json", "text/plain"}

CredValues ==
    {PyNone, PyStr(<<>>), PyStr(Fill("a", UUID_LEN)), PyStr(Fill("x", UUID_LEN))}
SecretValues ==
    {PyNone, PyStr(<<>>), PyStr(Fill("s", SECRET_LEN)),
     PyStr(Fill("x", SECRET_LEN))}

\* Bodies: text that is not JSON ("not json", ""), JSON that is not an
\* object (null, a list), and JSON objects with the two keys present or not
\* (.get() of an absent key is None, as is a JSON null value).
Body(k, i, s) == [kind |-> k, id |-> i, secret |-> s]
Bodies ==
    {Body(k, PyNone, PyNone) : k \in {"notjson", "empty", "null", "list"}}
    \cup {Body("object", i, s) : i \in CredValues, s \in SecretValues}

IsValidJSON(b) == b.kind \in {"null", "list", "object"}

Requests == [version : Headers, ctype : ContentTypes, body : Bodies]

NoReq == [version |-> NoHeader, ctype |-> NoContentType,
          body |-> Body("empty", PyNone, PyNone)]

\* The credentials add-compute has minted on this control node.
Minted == {<<Fill("a", UUID_LEN), Fill("s", SECRET_LEN)>>}

(***************************************************************************)
(* Flask's request.json (daemon.py:190-194): None unless the request       *)
(* declares application/json; otherwise the parsed body, BadRequest if the *)
(* body does not parse.  "parsed" tells whether the body was parsed.       *)
(***************************************************************************)
request_json_ParseFirst(r) ==
    IF ~IsValidJSON(r.body)
    THEN [result |-> "BadRequest", parsed |-> TRUE]
    ELSE IF r.ctype # "application/json" \/ r.body.kind = "null"
         THEN [result |-> "None", parsed |-> TRUE]
         ELSE [result |-> r.body.kind, parsed |-> TRUE]

request_json(r) ==
    IF r.ctype # "application/json"
    THEN [result |-> "None", parsed |-> FALSE]
    ELSE IF ~IsValidJSON(r.body)
         THEN [result |-> "BadRequest", parsed |-> TRUE]
         ELSE IF r.body.kind = "null"
              THEN [result |-> "None", parsed |-> TRUE]
              ELSE [result |-> r.body.kind, parsed |-> TRUE]

(***************************************************************************)
(* The join server: join() of daemon.py, one action per stage.             *)
(***************************************************************************)
Finish(r, done) ==
    /\ resp' = r
    /\ spc' = "done"
    /\ steps' = steps \o done

Continue(next, done) ==
    /\ spc' = next
    /\ steps' = steps \o done
    /\ resp' = resp

\* A request arrives (the previous one, if any, has been answered).
Receive ==
    /\ spc \in {"idle", "done"}
    /\ \E r \in Requests : req' = r
    /\ spc' = "version"
    /\ resp' = NoResp
    /\ steps' = <<>>
    /\ UNCHANGED <<idpValid>>
    /\ UNCHANGED <<cliVars, issVars, tlsVars, conVars, askVars>>

\* daemon.py:167-188: the exception the version header raises, or "ok".
version_verdict_Swapped(h) ==
    IF h = NoHeader THEN "APIVersionMissing"
    ELSE IF ~IsSemver(h) THEN "APIVersionInvalid"
    ELSE IF Major(h) > API_VERSION_MAJOR THEN "APIVersionDropped"
    ELSE IF Major(h) < API_VERSION_MAJOR THEN "APIVersionNotImplemented"
    ELSE "ok"

version_verdict_MinorChecked(h) ==
    IF h = NoHeader THEN "APIVersionMissing"
    ELSE IF ~IsSemver(h) THEN "APIVersionInvalid"
    ELSE IF Major(h) > API_VERSION_MAJOR THEN "APIVersionNotImplemented"
    ELSE IF Major(h) < API_VERSION_MAJOR THEN "APIVersionDropped"
    ELSE IF h[2].val > 0 THEN "APIVersionNotImplemented"
    ELSE "ok"

version_verdict(h) ==
    IF h = NoHeader THEN "APIVersionMissing"
    ELSE IF ~IsSemver(h) THEN "APIVersionInvalid"
    ELSE IF Major(h) > API_VERSION_MAJOR THEN "APIVersionNotImplemented"
    ELSE IF Major(h) < API_VERSION_MAJOR THEN "APIVersionDropped"
    ELSE "ok"

\* daemon.py:165-188
VersionCheck ==
    /\ spc = "version"
    /\ LET v == version_verdict(req.version)
       IN  IF v = "ok"
           THEN Continue("content", <<"version">>)
           ELSE Finish(handle_api_exception(v), <<"version">>)
    /\ UNCHANGED <<req, idpValid>>
    /\ UNCHANGED <<cliVars, issVars, tlsVars, conVars, askVars>>

\* daemon.py:190-202
ContentCheck ==
    /\ spc = "content"
    /\ LET j == request_json(req)
           done == IF j.parsed THEN <<"content-type", "parse-json">>
                               ELSE <<"content-type">>
       IN  IF j.result = "BadRequest"
           THEN Finish(handle_api_exception("InvalidJSONInRequest"), done)
           ELSE IF j.result = "None"
           THEN Finish(handle_api_exception("IncorrectContentType"), done)
           ELSE Continue("credential", done)
    /\ UNCHANGED <<req, idpValid>>
    /\ UNCHANGED <<cliVars, issVars, tlsVars, conVars, askVars>>

\* daemon.py:211 `return MissingAuthDataInRequest()`: the view returns the
\* exception object instead of raising it.  No errorhandler runs for a
\* returned value and an exception object is not a response, so Flask
\* answers with its own 500.
MissingAuthDataResult == FrameworkError

\* daemon.py:210 `if not credential_id or not credential_secret`.
MissingAuthData_IdOnly(b) == ~Truthy(b.id)

MissingAuthData(b) == ~Truthy(b.id) \/ ~Truthy(b.secret)

\* daemon.py:204-211.  req_json.get() exists only on a JSON object; on any
\* other parsed value it raises AttributeError, which nothing handles.
CredentialCheck ==
    /\ spc = "credential"
    /\ IF req.body.kind # "object"
       THEN Finish(FrameworkError, <<"credential">>)
       ELSE IF MissingAuthData(req.body)
       THEN Finish(MissingAuthDataResult, <<"credential">>)
       ELSE Continue("auth", <<"credential">>)
    /\ UNCHANGED <<req, idpValid>>
    /\ UNCHANGED <<cliVars, issVars, tlsVars, conVars, askVars>>

\* The text of an exception of the Identity Provider's client, as
\* logger.exception writes it to the server's log.
FailureDetails == {"connection refused", "name not known"}

\* The response sent for an API exception raised after a failure with the
\* given detail: the raise sites pass no argument and to_dict() returns the
\* message of the class (daemon.py:35-36, 97-100), so the detail is not in it.
error_response_Forwarded(r, detail) == [r EXCEPT !.message = detail]

error_response(r, detail) == r

\* The response for a failure to build the auth object (daemon.py:225-229).
AuthBuildFailure_Unexpected == handle_api_exception("UnexpectedError")

AuthBuildFailure == handle_api_exception("InvalidAuthDataInRequest")

\* daemon.py:216-229: v3.ApplicationCredential(...) builds or raises.
BuildAuth ==
    /\ spc = "auth"
    /\ \E ok \in BOOLEAN :
         IF ok THEN Continue("session", <<"auth">>)
         ELSE \E d \in FailureDetails :
                Finish(error_response(AuthBuildFailure, d),
                       <<"auth-failed", d>>)
    /\ UNCHANGED <<req, idpValid>>
    /\ UNCHANGED <<cliVars, issVars, tlsVars, conVars, askVars>>

\* daemon.py:231-239: session.Session(auth=auth) builds or raises.
BuildSession ==
    /\ spc = "session"
    /\ \E ok \in BOOLEAN :
         IF ok THEN Continue("client", <<"session">>)
         ELSE \E d \in FailureDetails :
                Finish(error_response(handle_api_exception("UnexpectedError"),
                                      d),
                       <<"session-failed", d>>)
    /\ UNCHANGED <<req, idpValid>>
    /\ UNCHANGED <<cliVars, issVars, tlsVars, conVars, askVars>>

\* daemon.py:241-247: v3client.Client(session=sess) builds or raises.
BuildClient ==
    /\ spc = "client"
    /\ \E ok \in BOOLEAN :
         IF ok THEN Continue("catalog", <<"client">>)
         ELSE \E d \in FailureDetails :
                Finish(error_response(handle_api_exception("UnexpectedError"),
                                      d),
                       <<"client-failed", d>>)
    /\ UNCHANGED <<req, idpValid>>
    /\ UNCHANGED <<cliVars, issVars, tlsVars, conVars, askVars>>

\* What keystone_client.get(.../auth/catalog) can do for a credential: return
\* when the Identity Provider accepts it, raise Unauthorized or
\* AuthorizationFailure when it does not, and at any time fail in transport
\* or in some way the handler has no except clause for.
IdPOutcomes(id, secret) ==
    (IF <<id.v, secret.v>> \in idpValid
     THEN {"ok"}
     ELSE {"Unauthorized", "AuthorizationFailure"})
    \cup {"ValueError", "ConnectionError", "SSLError", "OtherError"}

\* daemon.py:249-254, 273-277: the handler goes on to join_info() only when
\* the call returned.
CatalogReturned_Swallow(o) == o \in {"ok", "Unauthorized"}

CatalogReturned(o) == o = "ok"

\* The except clauses of daemon.py:255-271, in order; an exception none of
\* them names leaves the view unhandled.
CatalogResponse_NoUnauthorized(o) ==
    IF o \in {"AuthorizationFailure"}
    THEN handle_api_exception("AuthorizationFailed")
    ELSE IF o \in {"ValueError", "ConnectionError", "SSLError"}
    THEN handle_api_exception("UnexpectedError")
    ELSE FrameworkError

CatalogResponse(o) ==
    IF o \in {"AuthorizationFailure", "Unauthorized"}
    THEN handle_api_exception("AuthorizationFailed")
    ELSE IF o \in {"ValueError", "ConnectionError", "SSLError"}
    THEN handle_api_exception("UnexpectedError")
    ELSE FrameworkError

\* daemon.py:249-271
CatalogCall ==
    /\ spc = "catalog"
    /\ \E o \in IdPOutcomes(req.body.id, req.body.secret) :
         IF CatalogReturned(o)
         THEN Continue("respond", <<"idp-call", o>>)
         ELSE \E d \in FailureDetails :
                Finish(error_response(CatalogResponse(o), d),
                       <<"idp-call", o, d>>)
    /\ UNCHANGED <<req, idpValid>>
    /\ UNCHANGED <<cliVars, issVars, tlsVars, conVars, askVars>>

\* daemon.py:153-158 and 277: join_info() reads the whole configuration with
\* `snapctl get config`; the command or the decoding of its output may fail,
\* which nothing handles.
Respond ==
    /\ spc = "respond"
    /\ \E ok \in BOOLEAN :
         IF ok THEN Finish(ConfigResponse, <<"join_info">>)
               ELSE Finish(FrameworkError, <<"join_info">>)
    /\ UNCHANGED <<req, idpValid>>
    /\ UNCHANGED <<cliVars, issVars, tlsVars, conVars, askVars>>

\* The Identity Provider expires a credential (20 minutes after add-compute
\* minted it, add_compute.py:56-64); the join server takes no part in it.
ExpireCredential ==
    /\ \E c \in idpValid : idpValid' = idpValid \ {c}
    /\ UNCHANGED <<req, spc, resp, steps>>
    /\ UNCHANGED <<cliVars, issVars, tlsVars, conVars, askVars>>

(***************************************************************************)
(* The compute-node side.  Python values of a decoded token: None, str (a   *)
(* sequence of characters) and bytes (a sequence of 0..255).               *)
(***************************************************************************)
TNone == [t |-> "none", v |-> <<>>]
TStr(s) == [t |-> "str", v |-> s]
TBin(b) == [t |-> "bytes", b |-> b]

\* len(x) of a str or of bytes.
len(x) == IF x.t = "bytes" THEN Len(x.b) ELSE Len(x.v)

HexDigits ==
    <<"0", "1", "2", "3", "4", "5", "6", "7", "8", "9",
      "a", "b", "c", "d", "e", "f">>

\* bytes.hex(): two lowercase hex digits per byte.
RECURSIVE hex(_)
hex(b) ==
    IF b = <<>> THEN <<>>
    ELSE <<HexDigits[(Head(b) \div 16) + 1], HexDigits[(Head(b) % 16) + 1]>>
         \o hex(Tail(b))

\* str(v), as an f-string formats it: a str as itself, bytes as their repr
\* b'...' (the bytes are named by their hex digits here), None as "None".
format(x) ==
    IF x.t = "str" THEN x.v
    ELSE IF x.t = "bytes" THEN <<"b", "'">> \o hex(x.b) \o <<"'">>
    ELSE <<"N", "o", "n", "e">>

(***************************************************************************)
(* msgpack (oslo_serialization.msgpackutils): a payload is a sequence of   *)
(* items; a map header is followed by its keys and values.                 *)
(***************************************************************************)
MapHdr(n) == [k |-> "map", n |-> n]
StrItem(s) == [k |-> "str", v |-> s]
BinItem(b) == [k |-> "bin", b |-> b]
NilItem == [k |-> "nil"]
ReservedItem == [k |-> "reserved"]

ItemOf(x) ==
    IF x.t = "str" THEN StrItem(x.v)
    ELSE IF x.t = "bytes" THEN BinItem(x.b)
    ELSE NilItem

ValueOf(item) ==
    IF item.k = "str" THEN TStr(item.v)
    ELSE IF item.k = "bin" THEN TBin(item.b)
    ELSE TNone

\* msgpackutils.dumps(dict): the dict is a sequence of <<key, value>>.
RECURSIVE dumps_pairs(_)
dumps_pairs(d) ==
    IF d = <<>> THEN <<>>
    ELSE <<StrItem(Head(d)[1]), ItemOf(Head(d)[2])>> \o dumps_pairs(Tail(d))

dumps(d) == <<MapHdr(Len(d))>> \o dumps_pairs(d)

\* msgpackutils.loads(bytes): the object the payload holds, or the
\* exception msgpack raises (clustering.py:67-94).
loads(p) ==
    IF p = <<>> THEN [exc |-> "ValueError", map |-> FALSE, obj |-> <<>>]
    ELSE IF Head(p).k = "reserved"
    THEN [exc |-> "FormatError", map |-> FALSE, obj |-> <<>>]
    ELSE IF Head(p).k # "map"
    THEN IF Len(p) > 1
         THEN [exc |-> "ExtraData", map |-> FALSE, obj |-> <<>>]
         ELSE [exc |-> "", map |-> FALSE, obj |-> <<>>]
    ELSE LET n == Head(p).n IN
         IF Len(p) < 1 + 2 * n
         THEN [exc |-> "ValueError", map |-> FALSE, obj |-> <<>>]
         ELSE IF Len(p) > 1 + 2 * n
         THEN [exc |-> "ExtraData", map |-> FALSE, obj |-> <<>>]
         ELSE [exc |-> "", map |-> TRUE,
               obj |-> [i \in 1..n |-> <<p[2 * i].v, ValueOf(p[2 * i + 1])>>]]

\* dict.get(key): the value of the last pair with that key, None without one.
get(d, key) ==
    IF \E i \in 1..Len(d) : d[i][1] = key
    THEN d[CHOOSE i \in 1..Len(d) :
             d[i][1] = key /\ \A j \in (i + 1)..Len(d) : d[j][1] # key][2]
    ELSE TNone

(***************************************************************************)
(* Characters and hostnames (clustering.py:144-173).                       *)
(***************************************************************************)
Chr_hostname == <<"h", "o", "s", "t", "n", "a", "m", "e">>
Chr_fingerprint == <<"f", "i", "n", "g", "e", "r", "p", "r", "i", "n", "t">>
Chr_id == <<"i", "d">>
Chr_secret == <<"s", "e", "c", "r", "e", "t">>

Digits == {"0", "1", "2", "3", "4", "5", "6", "7", "8", "9"}
Letters ==
    {"a", "b", "c", "d", "e", "f", "g", "h", "i", "j", "k", "l", "m", "n",
     "o", "p", "q", "r", "s", "t", "u", "v", "w", "x", "y", "z",
     "A", "B", "C", "D", "E", "F", "G", "H", "I", "J", "K", "L", "M", "N",
     "O", "P", "Q", "R", "S", "T", "U", "V", "W", "X", "Y", "Z"}
HexLetters == {"a", "b", "c", "d", "e", "f", "A", "B", "C", "D", "E", "F"}

\* str.split(sep)
RECURSIVE split(_, _)
split(s, sep) ==
    IF \A i \in 1..Len(s) : s[i] # sep THEN <<s>>
    ELSE LET i == CHOOSE j \in 1..Len(s) :
                     s[j] = sep /\ \A m \in 1..(j - 1) : s[m] # sep
         IN  <<SubSeq(s, 1, i - 1)>> \o split(SubSeq(s, i + 1, Len(s)), sep)

MAX_HOSTNAME_LEN == 253
MAX_LABEL_LEN == 63

\* re '(?!-)[A-Z0-9-]{1,63}(?<!-)$' with IGNORECASE, matched from the start
\* of a label.
\* `$` matches at the end of the string and also just before a newline that
\* ends it (the character is named "newline" here).
allowed(x) ==
    LET core == IF x # <<>> /\ x[Len(x)] = "newline"
                THEN SubSeq(x, 1, Len(x) - 1) ELSE x
    IN  /\ Len(core) >= 1 /\ Len(core) <= MAX_LABEL_LEN
        /\ \A i \in 1..Len(core) : core[i] \in Letters \cup Digits \cup {"-"}
        /\ core[1] # "-"
        /\ core[Len(core)] # "-"

\* _validate_hostname: TRUE when it raises no ValueError.
validate_hostname(hostname) ==
    IF hostname.t = "none" THEN FALSE
    ELSE IF Len(hostname.v) = 0 THEN FALSE
    ELSE LET h == hostname.v
             name == IF h[Len(h)] = "." THEN SubSeq(h, 1, Len(h) - 1) ELSE h
             labels == split(name, ".")
             tld == labels[Len(labels)]
         IN  /\ Len(name) <= MAX_HOSTNAME_LEN
             /\ \E i \in 1..Len(tld) : tld[i] \in Letters \cup {"-"}
             /\ \A i \in 1..Len(labels) : allowed(labels[i])

DigitValue(c) == CHOOSE n \in 0..9 : HexDigits[n + 1] = c

RECURSIVE DecimalValue(_)
DecimalValue(x) ==
    IF x = <<>> THEN 0
    ELSE 10 * DecimalValue(SubSeq(x, 1, Len(x) - 1)) + DigitValue(x[Len(x)])

\* netaddr.valid_ipv4(address, INET_PTON): four decimal parts of 0..255.
valid_ipv4(a) ==
    LET parts == split(a, ".") IN
    /\ Len(parts) = 4
    /\ \A i \in 1..4 :
         /\ Len(parts[i]) \in 1..3
         /\ \A j \in 1..Len(parts[i]) : parts[i][j] \in Digits
         /\ DecimalValue(parts[i]) <= 255

\* netaddr.valid_ipv6(address, INET_PTON), without the forms that embed an
\* IPv4 address: groups of 1..4 hex digits, eight of them or fewer with one
\* "::".
valid_ipv6(a) ==
    LET g == split(a, ":")
        n == Len(g)
        empty == {i \in 1..n : g[i] = <<>>}
        inner == {i \in empty : i # 1 /\ i # n}
    IN  /\ n >= 3
        /\ \A i \in 1..n : /\ Len(g[i]) <= 4
                           /\ \A j \in 1..Len(g[i]) :
                                g[i][j] \in Digits \cup HexLetters
        /\ IF empty = {} THEN n = 8
           ELSE /\ Cardinality(inner) = 1
                /\ 1 \in empty => 2 \in empty
                /\ n \in empty => (n - 1) \in empty
                /\ Cardinality((1..n) \ empty) <= 7

\* _validate_address: TRUE when it raises no ValueError.
validate_address(address) ==
    /\ address.t # "none"
    /\ valid_ipv4(address.v) \/ valid_ipv6(address.v)

\* clustering.py:99-114: the hostname passes when it is an address or,
\* failing that, a hostname.
hostname_ok(hostname) ==
    validate_address(hostname) \/ validate_hostname(hostname)

(***************************************************************************)
(* ConnectionString._validate (clustering.py:56-142).                      *)
(***************************************************************************)
DIGEST_SIZE == 32

\* An answer is the text the operator enters: base64 that decodes to a
\* msgpack payload, text that is not base64, or text that is not ASCII.
Answer(b, p) == [b64 |-> b, payload |-> p]
EmptyAnswer == Answer("ok", <<>>)

\* The dict add-compute packs (add_compute.py:94-104), a key left out when
\* its value is None.
TokenDict(h, f, i, s) ==
    (IF h.t = "none" THEN <<>> ELSE <<<<Chr_hostname, h>>>>)
    \o (IF f.t = "none" THEN <<>> ELSE <<<<Chr_fingerprint, f>>>>)
    \o (IF i.t = "none" THEN <<>> ELSE <<<<Chr_id, i>>>>)
    \o (IF s.t = "none" THEN <<>> ELSE <<<<Chr_secret, s>>>>)

Token(h, f, i, s) == Answer("ok", dumps(TokenDict(h, f, i, s)))

Around(n) == (n - LenSlack)..(n + LenSlack)

Hostnames ==
    {TNone,
     TStr(<<"a", ".", "a">>),
     TStr(<<"1", ".", "1", ".", "1", ".", "1">>),
     TStr(<<":", ":", "1">>),
     TStr(<<"-", "a">>)}
Fingerprints ==
    {TNone, TStr(Fill("f", DIGEST_SIZE))}
    \cup {TBin(Fill(171, n)) : n \in Around(DIGEST_SIZE)}
CredentialIds ==
    {TNone, TBin(Fill(97, UUID_LEN))}
    \cup {TStr(Fill("a", n)) : n \in Around(UUID_LEN)}
CredentialSecrets ==
    {TNone, TBin(Fill(115, SECRET_LEN))}
    \cup {TStr(Fill("s", n)) : n \in Around(SECRET_LEN)}

Malformed ==
    {Answer("nonascii", <<>>), Answer("malformed", <<>>),
     Answer("ok", <<ReservedItem>>),
     Answer("ok", <<StrItem(<<"a">>)>>),
     Answer("ok", <<MapHdr(1), StrItem(Chr_id)>>),
     Answer("ok", <<MapHdr(0), NilItem>>)}

\* The connection strings --join may have stored before the question runs.
Answers ==
    {Token(h, f, i, s) : h \in Hostnames, f \in Fingerprints,
                         i \in CredentialIds, s \in CredentialSecrets}
    \cup Malformed

GoodHostname == TStr(<<"a", ".", "a">>)
GoodFingerprint == TBin(Fill(171, DIGEST_SIZE))
GoodId == TStr(Fill("a", UUID_LEN))
GoodSecret == TStr(Fill("s", SECRET_LEN))

\* A token as add-compute prints it.
GoodToken == Token(GoodHostname, GoodFingerprint, GoodId, GoodSecret)

\* The answers an operator types at the prompt: a good token with any one
\* field changed, and text that is no token.
TypedAnswers ==
    {Token(h, GoodFingerprint, GoodId, GoodSecret) : h \in Hostnames}
    \cup {Token(GoodHostname, f, GoodId, GoodSecret) : f \in Fingerprints}
    \cup {Token(GoodHostname, GoodFingerprint, i, GoodSecret) :
            i \in CredentialIds}
    \cup {Token(GoodHostname, GoodFingerprint, GoodId, x) :
            x \in CredentialSecrets}
    \cup Malformed

\* _validate_fingerprint: len() of None raises TypeError, which the caller's
\* `except ValueError` does not catch.
validate_fingerprint_NoCheck(f) ==
    IF f.t = "none" THEN "TypeError" ELSE ""

validate_fingerprint(f) ==
    IF f.t = "none" THEN "TypeError"
    ELSE IF len(f) # DIGEST_SIZE THEN "ValueError"
    ELSE ""

validate_credential_id(c) ==
    IF c.t = "none" THEN "ValueError"
    ELSE IF len(c) # UUID_LEN THEN "ValueError"
    ELSE ""

validate_credential_secret(c) ==
    IF c.t = "none" THEN "ValueError"
    ELSE IF len(c) # SECRET_LEN THEN "ValueError"
    ELSE ""

Invalid == [valid |-> FALSE, exc |-> "", info |-> <<>>]
Raises(e) == [valid |-> FALSE, exc |-> e, info |-> <<>>]

\* _validate(answer): (answer, valid) and the dict kept in _conn_info, or the
\* exception that escapes it.
validate(a) ==
    IF a.b64 = "nonascii" THEN Raises("UnicodeEncodeError")
    ELSE IF a.b64 = "malformed" THEN Invalid
    ELSE LET l == loads(a.payload) IN
    IF l.exc # "" THEN Invalid
    ELSE IF ~l.map THEN Raises("AttributeError")
    ELSE LET d == l.obj
             hostname == get(d, Chr_hostname)
             fp == validate_fingerprint(get(d, Chr_fingerprint))
         IN
    IF ~hostname_ok(hostname)
    THEN Invalid
    ELSE IF fp = "TypeError" THEN Raises("TypeError")
    ELSE IF fp # "" THEN Invalid
    ELSE IF validate_credential_id(get(d, Chr_id)) # "" THEN Invalid
    ELSE IF validate_credential_secret(get(d, Chr_secret)) # "" THEN Invalid
    ELSE [valid |-> TRUE, exc |-> "", info |-> d]

\* _validate over the answers of the model.
validated == [a \in Answers \cup {EmptyAnswer} |-> validate(a)]

(***************************************************************************)
(* The text of a connection string: the msgpack bytes of the dict in       *)
(* base64 (add_compute.py:105, clustering.py:58-68).  A byte is 0..255.    *)
(***************************************************************************)
\* The printable ASCII characters in code order, the space (32) first; the
\* double quote (34), the backslash (92) and the backtick (96) are written
\* by name.
AsciiChars ==
    <<" ", "!", "quote", "#", "$", "%", "&", "'", "(", ")", "*", "+", ",", "-",
      ".", "/", "0", "1", "2", "3", "4", "5", "6", "7", "8", "9", ":", ";",
      "<", "=", ">", "?", "@", "A", "B", "C", "D", "E", "F", "G", "H", "I",
      "J", "K", "L", "M", "N", "O", "P", "Q", "R", "S", "T", "U", "V", "W",
      "X", "Y", "Z", "[", "backslash", "]", "^", "_", "backtick", "a", "b", "c", "d", "e",
      "f", "g", "h", "i", "j", "k", "l", "m", "n", "o", "p", "q", "r", "s",
      "t", "u", "v", "w", "x", "y", "z", "{", "|", "}", "~">>

IsAscii(c) == \E i \in 1..Len(AsciiChars) : AsciiChars[i] = c
ord(c) == 31 + (CHOOSE i \in 1..Len(AsciiChars) : AsciiChars[i] = c)
chr(n) == AsciiChars[n - 31]

\* str.encode() and bytes.decode() of text that is ASCII.
encode(s) == [i \in 1..Len(s) |-> ord(s[i])]
decode(b) == [i \in 1..Len(b) |-> chr(b[i])]

\* msgpack.packb(..., use_bin_type=True) of one item: fixmap, fixstr or
\* str 8, bin 8, nil; 0xc1 is the code msgpack never uses.
pack_item(x) ==
    IF x.k = "map" THEN <<128 + x.n>>
    ELSE IF x.k = "str"
    THEN (IF Len(x.v) <= 31 THEN <<160 + Len(x.v)>> ELSE <<217, Len(x.v)>>)
         \o encode(x.v)
    ELSE IF x.k = "bin" THEN <<196, Len(x.b)>> \o x.b
    ELSE IF x.k = "nil" THEN <<192>>
    ELSE <<193>>

RECURSIVE packb(_)
packb(p) == IF p = <<>> THEN <<>> ELSE pack_item(Head(p)) \o packb(Tail(p))

\* An item the bytes end in the middle of.
TruncatedItem == [k |-> "truncated"]

\* msgpack's reading of bytes into items.  The bytes of the model hold maps,
\* strings, binaries and nil; any other code reads as the reserved one.
RECURSIVE unpack_items(_)
unpack_items(b) ==
    IF b = <<>> THEN <<>>
    ELSE LET h == Head(b)
             hdr == IF h \in {196, 217} THEN 2 ELSE 1
             n == IF h \in 160..191 THEN h - 160
                  ELSE IF h \in {196, 217} /\ Len(b) >= 2 THEN b[2]
                  ELSE 0
             data == SubSeq(b, hdr + 1, hdr + n)
             rest == SubSeq(b, hdr + n + 1, Len(b))
         IN  IF Len(b) < hdr + n THEN <<TruncatedItem>>
             ELSE IF h \in 128..143
             THEN <<MapHdr(h - 128)>> \o unpack_items(rest)
             ELSE IF h \in 160..191 \/ h = 217
             THEN <<StrItem(decode(data))>> \o unpack_items(rest)
             ELSE IF h = 196 THEN <<BinItem(data)>> \o unpack_items(rest)
             ELSE IF h = 192 THEN <<NilItem>> \o unpack_items(rest)
             ELSE <<ReservedItem>> \o unpack_items(rest)

\* The payload msgpackutils.loads is given: the items of the bytes.  Bytes
\* that end inside an item are an incomplete object, or data after a
\* complete one.
Payload(b) ==
    LET items == unpack_items(b)
        n == Len(items)
    IN  IF n > 0 /\ items[n] = TruncatedItem
        THEN LET prefix == SubSeq(items, 1, n - 1)
             IN  IF loads(prefix).exc = "" THEN Append(prefix, NilItem)
                 ELSE prefix
        ELSE items

\* The base64 alphabet, in value order.
B64Chars ==
    <<"A", "B", "C", "D", "E", "F", "G", "H", "I", "J", "K", "L", "M", "N",
      "O", "P", "Q", "R", "S", "T", "U", "V", "W", "X", "Y", "Z", "a", "b",
      "c", "d", "e", "f", "g", "h", "i", "j", "k", "l", "m", "n", "o", "p",
      "q", "r", "s", "t", "u", "v", "w", "x", "y", "z", "0", "1", "2", "3",
      "4", "5", "6", "7", "8", "9", "+", "/">>

IsB64(c) == \E i \in 1..Len(B64Chars) : B64Chars[i] = c
b64val(c) == (CHOOSE i \in 1..Len(B64Chars) : B64Chars[i] = c) - 1
b64chr(n) == B64Chars[n + 1]

\* base64.encode_as_text: four characters for every three bytes, "=" padding.
RECURSIVE b64encode_NoPadding(_)
b64encode_NoPadding(b) ==
    IF b = <<>> THEN <<>>
    ELSE IF Len(b) = 1
    THEN <<b64chr(b[1] \div 4), b64chr((b[1] % 4) * 16)>>
    ELSE IF Len(b) = 2
    THEN <<b64chr(b[1] \div 4), b64chr((b[1] % 4) * 16 + b[2] \div 16),
           b64chr((b[2] % 16) * 4)>>
    ELSE <<b64chr(b[1] \div 4), b64chr((b[1] % 4) * 16 + b[2] \div 16),
           b64chr((b[2] % 16) * 4 + b[3] \div 64), b64chr(b[3] % 64)>>
         \o b64encode_NoPadding(SubSeq(b, 4, Len(b)))

RECURSIVE b64encode(_)
b64encode(b) ==
    IF b = <<>> THEN <<>>
    ELSE IF Len(b) = 1
    THEN <<b64chr(b[1] \div 4), b64chr((b[1] % 4) * 16), "=", "=">>
    ELSE IF Len(b) = 2
    THEN <<b64chr(b[1] \div 4), b64chr((b[1] % 4) * 16 + b[2] \div 16),
           b64chr((b[2] % 16) * 4), "=">>
    ELSE <<b64chr(b[1] \div 4), b64chr((b[1] % 4) * 16 + b[2] \div 16),
           b64chr((b[2] % 16) * 4 + b[3] \div 64), b64chr(b[3] % 64)>>
         \o b64encode(SubSeq(b, 4, Len(b)))

\* The bytes of base64 characters, four characters at a time.
RECURSIVE b64bytes(_)
b64bytes(d) ==
    IF Len(d) < 2 THEN <<>>
    ELSE LET v1 == b64val(d[1])
             v2 == b64val(d[2])
         IN  IF Len(d) = 2 THEN <<v1 * 4 + v2 \div 16>>
             ELSE LET v3 == b64val(d[3]) IN
                  IF Len(d) = 3
                  THEN <<v1 * 4 + v2 \div 16, (v2 % 16) * 16 + v3 \div 4>>
                  ELSE <<v1 * 4 + v2 \div 16, (v2 % 16) * 16 + v3 \div 4,
                         (v3 % 4) * 64 + b64val(d[4])>>
                       \o b64bytes(SubSeq(d, 5, Len(d)))

\* base64.decode_as_bytes (b64decode without validation): characters outside
\* the alphabet are dropped, the data ends at the padding, and padding that
\* does not complete the last group is an error (TypeError).
b64decode(text) ==
    LET pad == {i \in 1..Len(text) : text[i] = "="}
        end == IF pad = {} THEN Len(text)
               ELSE (CHOOSE i \in pad : \A j \in pad : i <= j) - 1
        data == SelectSeq(SubSeq(text, 1, end), IsB64)
        r == Len(data) % 4
    IN  [ok |-> \/ r = 0
                \/ r = 2 /\ Cardinality(pad) >= 2
                \/ r = 3 /\ Cardinality(pad) >= 1,
         bytes |-> b64bytes(data)]

\* What _validate makes of the text typed at the prompt, up to loads().
AnswerOf(text) ==
    IF \E i \in 1..Len(text) : ~IsAscii(text[i]) THEN Answer("nonascii", <<>>)
    ELSE LET d == b64decode(text)
         IN  IF d.ok THEN Answer("ok", Payload(d.bytes))
                     ELSE Answer("malformed", <<>>)

\* bytes.fromhex(text): a byte for every two hex digits of either case.
HexValue(c) ==
    IF \E n \in 1..Len(HexDigits) : HexDigits[n] = c
    THEN (CHOOSE n \in 1..Len(HexDigits) : HexDigits[n] = c) - 1
    ELSE CASE c = "A" -> 10 [] c = "B" -> 11 [] c = "C" -> 12
           [] c = "D" -> 13 [] c = "E" -> 14 [] c = "F" -> 15

RECURSIVE fromhex(_)
fromhex(s) ==
    IF Len(s) < 2 THEN <<>>
    ELSE <<16 * HexValue(s[1]) + HexValue(s[2])>> \o fromhex(SubSeq(s, 3, Len(s)))

(***************************************************************************)
(* The node's snap configuration, and Clustering.yes from the              *)
(* ConnectionString question on (questions/__init__.py:82-108).            *)
(***************************************************************************)
Roles == {"control", "compute"}
_retries == 3

NodeConfig(role, raw) ==
    [role |-> role, raw |-> raw,
     hostname |-> <<>>, fingerprint |-> <<>>,
     credential_id |-> <<>>, credential_secret |-> <<>>,
     credentials |-> "local", control_ip |-> "local",
     control_plane |-> "", hypervisor |-> ""]

End(o) == ipc' = "done" /\ outcome' = o

\* ConnectionString.ask (clustering.py:218-224): skipped on a control node.
AskConnectionString ==
    /\ ipc = "ask"
    /\ ipc' = IF config.role = "control" THEN "role" ELSE "loop"
    /\ UNCHANGED <<config, interactive, tries, answer, conn_info, net, outcome,
                   sent_at, wire>>
    /\ UNCHANGED <<srvVars, issVars, tlsVars, conVars, askVars>>

\* ConnectionString.after (clustering.py:207-216): the configuration it
\* sets; bytes.hex() exists only on bytes.
after(cfg, info) ==
    [cfg EXCEPT !.hostname = format(get(info, Chr_hostname)),
                !.fingerprint = hex(get(info, Chr_fingerprint).b),
                !.credential_id = format(get(info, Chr_id)),
                !.credential_secret = format(get(info, Chr_secret))]

\* question.py:205-218: what one iteration of the loop of Question.ask does
\* with the answer a, r being what _validate(a) gave: a valid answer is saved
\* and after() runs; the last invalid answer raises InvalidAnswer.
TakeAnswer(a, r) ==
    LET saved == [config EXCEPT !.raw = a]
    IN  /\ answer' = a
        /\ tries' = tries + 1
        /\ IF r.exc # ""
           THEN End(r.exc) /\ UNCHANGED <<config, conn_info>>
           ELSE IF ~r.valid
           THEN /\ UNCHANGED <<config, conn_info>>
                /\ IF tries + 1 = _retries
                   THEN End("InvalidAnswer")
                   ELSE UNCHANGED <<ipc, outcome>>
           ELSE /\ conn_info' = r.info
                /\ IF get(r.info, Chr_fingerprint).t # "bytes"
                   THEN config' = saved /\ End("AttributeError")
                   ELSE /\ config' = after(saved, r.info)
                        /\ ipc' = "role"
                        /\ UNCHANGED outcome

\* One iteration of the loop of Question.ask (question.py:198-218): the
\* answer is the operator's input, or the default loaded from the
\* configuration when there is no input.
AskIteration ==
    /\ ipc = "loop"
    /\ \E input \in (IF interactive THEN TypedAnswers \cup {EmptyAnswer}
                                    ELSE {EmptyAnswer}) :
         LET a == IF input = EmptyAnswer THEN config.raw ELSE input
         IN  TakeAnswer(a, validated[a])
    /\ UNCHANGED <<interactive, net, sent_at, wire>>
    /\ UNCHANGED <<srvVars, issVars, tlsVars, conVars, askVars>>

\* questions/__init__.py:87-108: the branch on the node's role.  A control
\* node goes on to provision its certificate.
SetupRole ==
    /\ ipc = "role"
    /\ IF config.role = "compute"
       THEN ipc' = "join" /\ UNCHANGED <<config, outcome>>
       ELSE /\ config' = [config EXCEPT !.control_plane = "true",
                                        !.hypervisor = "true"]
            /\ End("control")
    /\ UNCHANGED <<interactive, tries, answer, conn_info, net, sent_at, wire>>
    /\ UNCHANGED <<srvVars, issVars, tlsVars, conVars, askVars>>

(***************************************************************************)
(* The join client: join() of client.py, run as microstack_join.           *)
(***************************************************************************)
Statuses == {200, 400, 401, 410, 500, 501}
BodyKinds ==
    {"empty", "badutf8", "notjson", "message", "object",
     "config", "config-nonet", "config-nocreds"}

\* The certificates a server reached at the token's hostname may present,
\* by their SHA-256 fingerprint in hex.
ServerCerts == {hex(Fill(171, DIGEST_SIZE)), hex(Fill(10, DIGEST_SIZE))}

\* assert_fingerprint (client.py:37-41): the connection is kept only when
\* the digest of the certificate presented is the expected one.
fingerprint_ok_Any(expected, peer) == TRUE

fingerprint_ok(expected, peer) == peer = expected

NoWire == [peer |-> <<>>, err |-> "", status |-> 0, body |-> "empty"]

\* What conn_pool.urlopen meets (client.py:43-49): no server (MaxRetryError
\* with a cause that is no SSLError), a server whose certificate fails the
\* fingerprint check or whose TLS session fails otherwise (MaxRetryError
\* caused by an SSLError), or a server that passes it and answers.
Transports(expected) ==
    {[peer |-> <<>>, err |-> "ConnectionFailed", status |-> 0,
      body |-> "empty"]}
    \cup {[peer |-> p, err |-> "SSLError", status |-> 0, body |-> "empty"] :
            p \in ServerCerts}
    \cup {[peer |-> p, err |-> "", status |-> st, body |-> b] :
            p \in {q \in ServerCerts : fingerprint_ok(expected, q)},
            st \in Statuses, b \in BodyKinds}

\* client.py:75-77: the text of the exception for a status that is neither
\* 200 nor 401 ends with the status.
unexpected_status(st) ==
    CASE st = 400 -> "UnexpectedStatus 400"
      [] st = 410 -> "UnexpectedStatus 410"
      [] st = 500 -> "UnexpectedStatus 500"
      [] st = 501 -> "UnexpectedStatus 501"

\* join() as it would be if it decoded the body before looking at the status.
join_result_DecodeFirst(t) ==
    IF t.err = "SSLError" THEN "FingerprintMismatch"
    ELSE IF t.err # "" THEN "NoResponse"
    ELSE IF t.body = "badutf8" THEN "InvalidUTF8"
    ELSE IF t.status = 401
    THEN CASE t.body = "empty" -> "UnauthorizedRequestError"
           [] t.body = "message" -> "UnauthorizedRequestError(message)"
           [] t.body = "notjson" -> "JSONDecodeError"
           [] OTHER -> "KeyError"
    ELSE IF t.status # 200 THEN unexpected_status(t.status)
    ELSE CASE t.body = "empty" -> "EmptyResponse"
           [] t.body = "notjson" -> "JSONDecodeError"
           [] t.body = "config" -> ""
           [] OTHER -> "KeyError"

\* client.py:43-99: the exception join() ends with for what urlopen met
\* ("" when it returns).
join_result(t) ==
    IF t.err = "SSLError" THEN "FingerprintMismatch"
    ELSE IF t.err # "" THEN "NoResponse"
    ELSE IF t.status = 401
    THEN CASE t.body = "badutf8" -> "UnicodeDecodeError"
           [] t.body = "empty" -> "UnauthorizedRequestError"
           [] t.body = "message" -> "UnauthorizedRequestError(message)"
           [] t.body = "notjson" -> "JSONDecodeError"
           [] OTHER -> "KeyError"
    ELSE IF t.status # 200 THEN unexpected_status(t.status)
    ELSE CASE t.body = "badutf8" -> "InvalidUTF8"
           [] t.body = "empty" -> "EmptyResponse"
           [] t.body = "notjson" -> "JSONDecodeError"
           [] t.body = "config" -> ""
           [] OTHER -> "KeyError"

\* client.py:91-99: the configuration join() has set when it ends: the
\* credentials are set before control-ip is read from the response.
join_config(cfg, t) ==
    IF t.err = "" /\ t.status = 200
    THEN IF t.body = "config"
         THEN [cfg EXCEPT !.credentials = "control", !.control_ip = "control"]
         ELSE IF t.body = "config-nonet"
         THEN [cfg EXCEPT !.credentials = "control"]
         ELSE cfg
    ELSE cfg

\* client.py:19-49: the connection and the request are made from the
\* stored configuration.
join_call(cfg) ==
    [hostname |-> cfg.hostname, fingerprint |-> cfg.fingerprint,
     credential_id |-> cfg.credential_id,
     credential_secret |-> cfg.credential_secret]

\* The requests one urlopen call sends for what it meets (client.py:43-49):
\* with retries=0 a failed request raises MaxRetryError at once.
posts_Retried(cfg, t) ==
    IF t.err # "" THEN <<join_call(cfg), join_call(cfg)>>
    ELSE <<join_call(cfg)>>

posts(cfg, t) == <<join_call(cfg)>>

\* check_output('microstack_join') and what follows it
\* (questions/__init__.py:89-96): a failed join raises out of Clustering.yes.
ClientJoin ==
    /\ ipc = "join"
    /\ \E t \in Transports(config.fingerprint) :
         LET e == join_result(t)
             c == join_config(config, t)
         IN  /\ net' = net \o posts(config, t)
             /\ wire' = t
             /\ IF e = ""
                THEN /\ config' = [c EXCEPT !.control_plane = "false",
                                            !.hypervisor = "true"]
                     /\ End("joined")
                ELSE /\ config' = c
                     /\ End(e)
    /\ UNCHANGED <<interactive, tries, answer, conn_info, sent_at>>
    /\ UNCHANGED <<srvVars, issVars, tlsVars, conVars, askVars>>

(***************************************************************************)
(* The control node: add-compute (add_compute.py) and the Identity         *)
(* Provider it mints application credentials at.                           *)
(***************************************************************************)
VALIDITY_PERIOD == 20
SECRET_NBYTES == 32

\* The snap configuration of a control node, as add-compute and the
\* certificate provisioner read it; raw is
\* config.cluster.connection-string.raw, unset on a control node.
ControlConfig(role, ip, fp) ==
    [role |-> role, control_ip |-> ip, fingerprint |-> fp, raw |-> <<>>]

\* SHA-256 digests of certificates, and the addresses of control nodes.
CertDigests == {Fill(171, DIGEST_SIZE), Fill(10, DIGEST_SIZE),
                Fill(255, DIGEST_SIZE)}
ControlIps ==
    {<<"1", ".", "1", ".", "1", ".", "1">>,
     <<":", ":", "1">>,
     <<"n", "-", "1", ".", "a", "b">>}

\* The ids the Identity Provider assigns (UUIDs in hex).
CredIdPool == {Fill("a", UUID_LEN), Fill("0", UUID_LEN)}

\* secrets.token_urlsafe(nbytes): base64url text without padding.
token_urlsafe(nbytes) ==
    {Fill(c, (4 * nbytes + 2) \div 3) : c \in {"s", "_"}}

\* add_compute.py:41-49
access_rules ==
    <<[method |-> "GET", path |-> "/v3/auth/catalog", service |-> "identity"]>>

\* An expiration is a time or None.
NoExpiry == <<>>
Expiry(t) == <<t>>

\* add_compute.py:56: datetime.now(tz=timezone.utc) + VALIDITY_PERIOD
expires_at_Now(now) == Expiry(now)

expires_at(now) == Expiry(now + VALIDITY_PERIOD)

\* add_compute.py:70: secrets.token_urlsafe(32)[:32]
secret_Whole(urlsafe) == urlsafe

secret(urlsafe) == SubSeq(urlsafe, 1, SECRET_LEN)

\* add_compute.py:62-71: the credential create() is asked for, with the id
\* the Identity Provider gives it and the time it was created at.
credential(id, now, urlsafe) ==
    [id |-> id, secret |-> secret(urlsafe), expires_at |-> expires_at(now),
     access_rules |-> access_rules, unrestricted |-> FALSE,
     roles |-> <<"reader">>, issued_at |-> now]

\* The Identity Provider accepts a credential until its expiration.
NotExpired_Never(c, now) == TRUE

NotExpired(c, now) == c.expires_at = NoExpiry \/ now < c.expires_at[1]

IsHexText(s) ==
    /\ Len(s) % 2 = 0
    /\ \A i \in 1..Len(s) : s[i] \in Digits \cup HexLetters

\* add_compute.py:94-105: the dict of the token and its text.
token_data(cfg, cred) ==
    <<<<Chr_hostname, TStr(cfg.control_ip)>>,
      <<Chr_fingerprint, TBin(fromhex(cfg.fingerprint))>>,
      <<Chr_id, TStr(cred.id)>>,
      <<Chr_secret, TStr(cred.secret)>>>>

connection_string(cfg, cred) == b64encode(packb(dumps(token_data(cfg, cred))))

\* The configuration keys add_compute sets: it imports config_get only
\* (add_compute.py:16).
add_compute_sets_Raw == {"raw"}

add_compute_sets == {}

\* The configuration after a run of add-compute that printed `out`.
config_after_add_compute(cfg, out) ==
    [k \in DOMAIN cfg |->
        IF k \in add_compute_sets /\ out # <<>> THEN out[Len(out)] ELSE cfg[k]]

\* The role add_compute runs for (add_compute.py:89-93).
MayIssue_Any(role) == TRUE

MayIssue(role) == role = "control"

\* What _create_credential's calls to the Identity Provider do: roles.find
\* fails, application_credentials.create fails, or the credential is created.
CreateOutcomes == {"find-failed", "create-failed", "created"}

\* A run of add-compute (add_compute.py:74-111).
AddCompute ==
    /\ Len(add_out) < MaxRuns
    /\ IF ~MayIssue(ctl.role)
       THEN /\ add_out' = Append(add_out, "Exception")
            /\ UNCHANGED <<creds, idp_log, printed, idpValid>>
       ELSE \E o \in CreateOutcomes :
            IF o = "find-failed"
            THEN /\ idp_log' = Append(idp_log, "roles.find")
                 /\ add_out' = Append(add_out, "IdPError")
                 /\ UNCHANGED <<creds, printed, idpValid>>
            ELSE /\ idp_log' = idp_log \o
                       <<"roles.find", "application_credentials.create">>
                 /\ IF o = "create-failed"
                    THEN /\ add_out' = Append(add_out, "IdPError")
                         /\ UNCHANGED <<creds, printed, idpValid>>
                    ELSE \E id \in CredIdPool \ {c.id : c \in creds},
                            u \in token_urlsafe(SECRET_NBYTES) :
                         LET cred == credential(id, clock, u)
                         IN  /\ creds' = creds \cup {cred}
                             /\ idpValid' =
                                   idpValid \cup {<<cred.id, cred.secret>>}
                             /\ IF IsHexText(ctl.fingerprint)
                                THEN /\ printed' = Append(printed,
                                           connection_string(ctl, cred))
                                     /\ add_out' = Append(add_out, "ok")
                                ELSE /\ add_out' = Append(add_out, "ValueError")
                                     /\ UNCHANGED printed
    /\ ctl' = config_after_add_compute(ctl, printed')
    /\ UNCHANGED <<req, spc, resp, steps, clock>>
    /\ UNCHANGED <<cliVars, tlsVars, conVars, askVars>>

\* Time passes on the control node; the Identity Provider stops accepting
\* the credentials whose expiration has come.
Tick ==
    /\ clock < MaxTicks * TickMinutes
    /\ clock' = clock + TickMinutes
    /\ idpValid' = {p \in idpValid :
                      \A c \in creds :
                         <<c.id, c.secret>> = p => NotExpired(c, clock')}
    /\ UNCHANGED <<req, spc, resp, steps>>
    /\ UNCHANGED <<ctl, creds, idp_log, printed, add_out>>
    /\ UNCHANGED <<cliVars, tlsVars, conVars, askVars>>

\* The operator pastes a connection string add-compute printed at the
\* prompt of the ConnectionString question (one iteration of the loop of
\* Question.ask).
PasteToken ==
    /\ ipc = "loop"
    /\ interactive
    /\ \E i \in 1..Len(printed) :
         LET a == AnswerOf(printed[i])
         IN  TakeAnswer(a, validate(a))
    /\ UNCHANGED <<interactive, net, sent_at, wire>>
    /\ UNCHANGED <<srvVars, issVars, tlsVars, conVars, askVars>>

(***************************************************************************)
(* The certificate provisioner: generate_selfsigned() of cluster_tls.py,   *)
(* called NumCalls times on the control node, in any interleaving.  A key  *)
(* pair is named by a number, 0 for no key; the certificate made from a    *)
(* key bears its number.                                                   *)
(***************************************************************************)
Calls == 1..NumCalls

NotCalled ==
    [pc |-> "idle", key |-> 0, writes |-> {}, fp_ret |-> <<>>,
     prev |-> {}, quiet |-> FALSE]

NoFiles == [cert |-> 0, key |-> 0]

\* cert.fingerprint(hashes.SHA256()).hex() (cluster_tls.py:65): different
\* certificates have different digests.
cert_fprint(k) == hex(Fill(k, DIGEST_SIZE))

\* cluster_tls.py:37: cert_path.exists() and key_path.exists()
pair_exists_Unchecked(d) == FALSE

pair_exists(d) == d.cert # 0 /\ d.key # 0

Returned(p) == prov[p].pc = "done"
\* The call was cut short (the process was killed, the machine went down).
Killed(p) == prov[p].pc = "killed"
Running(p) == prov[p].pc \notin {"idle", "done", "killed"}

\* The call returns: what it saw in the configuration, and whether every
\* other call was idle or had returned.
Return(p, c) ==
    [prov[p] EXCEPT !.pc = "done", !.fp_ret = c.fingerprint,
                    !.quiet = \A q \in Calls \ {p} : ~Running(q)]

\* cluster_tls.py:31-65: the check for an existing pair, and the new key and
\* certificate when there is none.
TlsCheck ==
    /\ \E p \in Calls :
         /\ prov[p].pc = "idle"
         /\ LET prev == {q \in Calls : Returned(q) \/ Killed(q)}
            IN  IF pair_exists(disk)
                THEN /\ prov' = [prov EXCEPT ![p] =
                                   [Return(p, ctl) EXCEPT !.prev = prev]]
                     /\ UNCHANGED keygen
                ELSE /\ keygen' = keygen + 1
                     /\ prov' = [prov EXCEPT ![p] =
                                   [@ EXCEPT !.pc = "set-fingerprint",
                                             !.key = keygen + 1,
                                             !.prev = prev]]
    /\ UNCHANGED <<disk, ctl>>
    /\ UNCHANGED <<clock, creds, idp_log, printed, add_out>>
    /\ UNCHANGED <<srvVars, cliVars, conVars, askVars>>

\* cluster_tls.py:66
TlsSetFingerprint ==
    /\ \E p \in Calls :
         /\ prov[p].pc = "set-fingerprint"
         /\ ctl' = [ctl EXCEPT !.fingerprint = cert_fprint(prov[p].key)]
         /\ prov' = [prov EXCEPT ![p].pc = "write-cert",
                                 ![p].writes = @ \cup {"fingerprint"}]
    /\ UNCHANGED <<disk, keygen>>
    /\ UNCHANGED <<clock, creds, idp_log, printed, add_out>>
    /\ UNCHANGED <<srvVars, cliVars, conVars, askVars>>

\* cluster_tls.py:74
TlsWriteCert ==
    /\ \E p \in Calls :
         /\ prov[p].pc = "write-cert"
         /\ disk' = [disk EXCEPT !.cert = prov[p].key]
         /\ prov' = [prov EXCEPT ![p].pc = "write-key",
                                 ![p].writes = @ \cup {"cert"}]
    /\ UNCHANGED <<ctl, keygen>>
    /\ UNCHANGED <<clock, creds, idp_log, printed, add_out>>
    /\ UNCHANGED <<srvVars, cliVars, conVars, askVars>>

\* cluster_tls.py:75
TlsWriteKey ==
    /\ \E p \in Calls :
         /\ prov[p].pc = "write-key"
         /\ disk' = [disk EXCEPT !.key = prov[p].key]
         /\ prov' = [prov EXCEPT ![p] =
                       [Return(p, ctl) EXCEPT !.writes = @ \cup {"key"}]]
    /\ UNCHANGED <<ctl, keygen>>
    /\ UNCHANGED <<clock, creds, idp_log, printed, add_out>>
    /\ UNCHANGED <<srvVars, cliVars, conVars, askVars>>

\* A call stops between two of its statements (cluster_tls.py:66-75) and
\* does nothing more.
TlsInterrupt ==
    /\ \E p \in Calls :
         /\ prov[p].pc \in {"set-fingerprint", "write-cert", "write-key"}
         /\ prov' = [prov EXCEPT ![p].pc = "killed"]
    /\ UNCHANGED <<disk, ctl, keygen>>
    /\ UNCHANGED <<clock, creds, idp_log, printed, add_out>>
    /\ UNCHANGED <<srvVars, cliVars, conVars, askVars>>

(***************************************************************************)
(* The join client against the join server of the control node: join() of  *)
(* client.py split at urlopen, the request being served by join() of       *)
(* daemon.py in between.                                                   *)
(***************************************************************************)

\* client.py:26-29, 43-49: the request join() posts.
join_request_PlainText(cfg) ==
    [version |-> <<Num(1), Num(0), Num(0)>>,
     ctype |-> "text/plain",
     body |-> Body("object", PyStr(cfg.credential_id),
                   PyStr(cfg.credential_secret))]

join_request(cfg) ==
    [version |-> <<Num(1), Num(0), Num(0)>>,
     ctype |-> "application/json",
     body |-> Body("object", PyStr(cfg.credential_id),
                   PyStr(cfg.credential_secret))]

\* The body of a response of the join server as join() reads it: the
\* snapshot of an initialised control node has config.credentials and
\* config.network.control-ip (daemon.py:153-158), an API exception is a
\* JSON {message} (daemon.py:97-100), Flask's own error page is not JSON.
response_body(r) ==
    IF r.config THEN "config" ELSE IF r.json THEN "message" ELSE "notjson"

\* microstack_join starts (from Clustering.yes, or run again by the
\* operator with the configuration the token left) and posts its request;
\* the connection fails, the certificate is refused, or the request reaches
\* the join server.
JoinPost ==
    /\ ipc = "join" \/ (ipc = "done" /\ net # <<>>)
    /\ Len(net) < MaxPosts
    /\ spc \in {"idle", "done"}
    /\ net' = Append(net, join_call(config))
    /\ sent_at' = clock
    /\ \/ /\ wire' = [peer |-> <<>>, err |-> "ConnectionFailed",
                      status |-> 0, body |-> "empty"]
          /\ End(join_result(wire'))
          /\ UNCHANGED <<req, spc, resp, steps>>
       \/ IF fingerprint_ok(config.fingerprint, ctl.fingerprint)
          THEN /\ req' = join_request(config)
               /\ spc' = "version"
               /\ resp' = NoResp
               /\ steps' = <<>>
               /\ wire' = NoWire
               /\ ipc' = "wait"
               /\ outcome' = ""
          ELSE /\ wire' = [peer |-> ctl.fingerprint, err |-> "SSLError",
                           status |-> 0, body |-> "empty"]
               /\ End(join_result(wire'))
               /\ UNCHANGED <<req, spc, resp, steps>>
    /\ UNCHANGED <<config, interactive, tries, answer, conn_info, idpValid>>
    /\ UNCHANGED <<issVars, tlsVars, conVars, askVars>>

\* client.py:62-99 on the response of the join server.
JoinReceive ==
    /\ ipc = "wait"
    /\ spc = "done"
    /\ LET t == [peer |-> ctl.fingerprint, err |-> "",
                 status |-> resp.status, body |-> response_body(resp)]
           e == join_result(t)
           c == join_config(config, t)
       IN  /\ wire' = t
           /\ IF e = ""
              THEN /\ config' = [c EXCEPT !.control_plane = "false",
                                          !.hypervisor = "true"]
                   /\ End("joined")
              ELSE /\ config' = c
                   /\ End(e)
    /\ UNCHANGED <<interactive, tries, answer, conn_info, net, sent_at>>
    /\ UNCHANGED <<srvVars, issVars, tlsVars, conVars, askVars>>

(***************************************************************************)
(* The join server handling requests concurrently: NumRequests calls of    *)
(* join() of daemon.py, one per connection, in any interleaving.  The      *)
(* stages are those of the one-request handler above.                      *)
(***************************************************************************)
Conns == 1..NumRequests

JoinRequest(i, sec) ==
    [version |-> <<Num(1), Num(0), Num(0)>>, ctype |-> "application/json",
     body |-> Body("object", i, sec)]

\* Requests with a minted credential, with an unknown one, without
\* credentials, without a version, and with a body that is not an object.
ConcurrentRequests ==
    {JoinRequest(PyStr(Fill("a", UUID_LEN)), PyStr(Fill("s", SECRET_LEN))),
     JoinRequest(PyStr(Fill("x", UUID_LEN)), PyStr(Fill("x", SECRET_LEN))),
     JoinRequest(PyNone, PyNone),
     [JoinRequest(PyStr(Fill("a", UUID_LEN)), PyStr(Fill("s", SECRET_LEN)))
        EXCEPT !.version = NoHeader],
     [JoinRequest(PyNone, PyNone) EXCEPT !.body = Body("list", PyNone, PyNone)]}

\* daemon.py:167-206: the response the handler ends with before it has read
\* the credentials of the request, NoResp when it goes on to read them.
early_response(r) ==
    LET v == version_verdict(r.version)
        j == request_json(r)
    IN  IF v # "ok" THEN handle_api_exception(v)
        ELSE IF j.result = "BadRequest"
        THEN handle_api_exception("InvalidJSONInRequest")
        ELSE IF j.result = "None"
        THEN handle_api_exception("IncorrectContentType")
        ELSE IF r.body.kind # "object" THEN FrameworkError
        ELSE NoResp

\* daemon.py:219-247: the response for what building the auth object, the
\* session and the client met.
BuildOutcomes == {"ok", "auth-failed", "session-failed", "client-failed"}
build_response(b) ==
    IF b = "auth-failed" THEN AuthBuildFailure
    ELSE handle_api_exception("UnexpectedError")

\* The locals credential_id and credential_secret of a call of join()
\* (daemon.py:206-207).
NoFrame == [id |-> PyNone, secret |-> PyNone]

NoHandler ==
    [pc |-> "idle", req |-> NoReq, resp |-> NoResp,
     build |-> "", o |-> "", info |-> FALSE]

\* Where the locals of call w live: each call of a Python function has its
\* own; join() uses no global and no attribute of app.
slot_Shared(w) == 1

slot(w) == w

HandlerDone(w, r) ==
    handlers' = [handlers EXCEPT ![w].pc = "done", ![w].resp = r]

\* A request arrives on a connection.
HandlerReceive ==
    /\ \E w \in Conns, r \in ConcurrentRequests :
         /\ handlers[w].pc = "idle"
         /\ handlers' = [handlers EXCEPT ![w].pc = "parse", ![w].req = r]
    /\ UNCHANGED frames
    /\ UNCHANGED <<srvVars, cliVars, issVars, tlsVars, askVars>>

\* daemon.py:167-207
HandlerParse ==
    /\ \E w \in Conns :
         /\ handlers[w].pc = "parse"
         /\ LET r == handlers[w].req
                e == early_response(r)
            IN  IF e # NoResp
                THEN HandlerDone(w, e) /\ UNCHANGED frames
                ELSE /\ frames' = [frames EXCEPT ![slot(w)] =
                                     [id |-> r.body.id,
                                      secret |-> r.body.secret]]
                     /\ handlers' = [handlers EXCEPT ![w].pc = "credential"]
    /\ UNCHANGED <<srvVars, cliVars, issVars, tlsVars, askVars>>

\* daemon.py:208-211
HandlerCredential ==
    /\ \E w \in Conns :
         /\ handlers[w].pc = "credential"
         /\ LET f == frames[slot(w)]
            IN  IF ~Truthy(f.id) \/ ~Truthy(f.secret)
                THEN HandlerDone(w, MissingAuthDataResult)
                ELSE handlers' = [handlers EXCEPT ![w].pc = "build"]
    /\ UNCHANGED frames
    /\ UNCHANGED <<srvVars, cliVars, issVars, tlsVars, askVars>>

\* daemon.py:219-247
HandlerBuild ==
    /\ \E w \in Conns, b \in BuildOutcomes :
         /\ handlers[w].pc = "build"
         /\ handlers' =
              [handlers EXCEPT
                 ![w].build = b,
                 ![w].pc = IF b = "ok" THEN "catalog" ELSE "done",
                 ![w].resp = IF b = "ok" THEN @ ELSE build_response(b)]
    /\ UNCHANGED frames
    /\ UNCHANGED <<srvVars, cliVars, issVars, tlsVars, askVars>>

\* daemon.py:249-271
HandlerCatalog ==
    /\ \E w \in Conns :
         /\ handlers[w].pc = "catalog"
         /\ \E o \in IdPOutcomes(frames[slot(w)].id, frames[slot(w)].secret) :
              handlers' =
                [handlers EXCEPT
                   ![w].o = o,
                   ![w].pc = IF CatalogReturned(o) THEN "respond" ELSE "done",
                   ![w].resp = IF CatalogReturned(o) THEN @
                               ELSE CatalogResponse(o)]
    /\ UNCHANGED frames
    /\ UNCHANGED <<srvVars, cliVars, issVars, tlsVars, askVars>>

\* daemon.py:153-158, 277
HandlerRespond ==
    /\ \E w \in Conns, ok \in BOOLEAN :
         /\ handlers[w].pc = "respond"
         /\ handlers' =
              [handlers EXCEPT
                 ![w].info = ok,
                 ![w].pc = "done",
                 ![w].resp = IF ok THEN ConfigResponse ELSE FrameworkError]
    /\ UNCHANGED frames
    /\ UNCHANGED <<srvVars, cliVars, issVars, tlsVars, askVars>>

HandlersIdle ==
    /\ handlers = [w \in Conns |-> NoHandler]
    /\ frames = [w \in Conns |-> NoFrame]

(***************************************************************************)
(* A question: Question of question.py, constructed and asked, with its    *)
(* yes(), no() and after() recorded as calls.  Text is a sequence of       *)
(* characters; an answer is None, a str or a bool.                         *)
(***************************************************************************)
UpperCase ==
    <<"A", "B", "C", "D", "E", "F", "G", "H", "I", "J", "K", "L", "M",
      "N", "O", "P", "Q", "R", "S", "T", "U", "V", "W", "X", "Y", "Z">>
LowerCase ==
    <<"a", "b", "c", "d", "e", "f", "g", "h", "i", "j", "k", "l", "m",
      "n", "o", "p", "q", "r", "s", "t", "u", "v", "w", "x", "y", "z">>

\* str.lower()
lower_SameCase(text) == text

lower(text) ==
    [i \in 1..Len(text) |->
        IF \E k \in 1..Len(UpperCase) : UpperCase[k] = text[i]
        THEN LowerCase[CHOOSE k \in 1..Len(UpperCase) : UpperCase[k] = text[i]]
        ELSE text[i]]

\* str.strip(), for spaces
RECURSIVE strip(_)
strip(text) ==
    IF text = <<>> THEN text
    ELSE IF Head(text) = " " THEN strip(Tail(text))
    ELSE IF text[Len(text)] = " " THEN strip(SubSeq(text, 1, Len(text) - 1))
    ELSE text

Txt_true == <<"t", "r", "u", "e">>
Txt_false == <<"f", "a", "l", "s", "e">>
Txt_null == <<"n", "u", "l", "l">>
Txt_nil == <<"n", "i", "l">>
Txt_yes == <<"y", "e", "s">>
Txt_no == <<"n", "o">>

\* True and False, with their str().
PyBool(b) ==
    [t |-> "bool",
     v |-> IF b THEN <<"T", "r", "u", "e">> ELSE <<"F", "a", "l", "s", "e">>]

\* `if awr:`
IsTrue(x) == x.t \in {"str", "bool"} /\ x.v # <<>> /\ x # PyBool(FALSE)

QuestionTypes == {"boolean", "string", "auto", "foo"}
_valid_types_Any == QuestionTypes

_valid_types == {"boolean", "string", "auto"}

\* What `snapctl get <config_key>` may print for the question's key.
StoredTexts ==
    {Txt_true, Txt_false, Txt_null, <<" ", "T", "r", "u", "e">>,
     <<"m", "a", "y", "b", "e">>}

\* What the operator may type at the prompt (nothing: the default is used).
TypedTexts ==
    {<<>>, Txt_yes, <<"Y", "e", "s">>, <<"y">>, <<"Y", "E", "S">>,
     Txt_no, <<"N", "o">>, <<"n">>, <<"N">>,
     <<"f", "o", "o">>, <<"y", "e">>, <<"y", "e", "s", " ">>,
     Txt_nil, <<"N", "i", "l">>}

\* Question._load (question.py:114-138): nothing is read for an auto
\* question.
_load(ty, text) ==
    IF ty = "auto" THEN PyNone
    ELSE IF lower(strip(text)) = Txt_true THEN PyStr(Txt_yes)
    ELSE IF lower(strip(text)) = Txt_false THEN PyStr(Txt_no)
    ELSE IF lower(strip(text)) = Txt_null THEN PyNone
    ELSE PyStr(text)

\* Question._validate (question.py:88-112): answer.lower() exists only on
\* a str.
_validate(ty, a) ==
    IF ty = "auto" THEN [exc |-> "", awr |-> PyBool(TRUE), valid |-> TRUE]
    ELSE IF a.t # "str"
    THEN [exc |-> "AttributeError", awr |-> a, valid |-> FALSE]
    ELSE IF ty = "string"
    THEN [exc |-> "",
          awr |-> IF lower(a.v) = Txt_nil THEN PyNone ELSE a,
          valid |-> TRUE]
    ELSE IF lower(a.v) \in {<<"y">>, Txt_yes}
    THEN [exc |-> "", awr |-> PyBool(TRUE), valid |-> TRUE]
    ELSE IF lower(a.v) \in {<<"n">>, Txt_no}
    THEN [exc |-> "", awr |-> PyBool(FALSE), valid |-> TRUE]
    ELSE [exc |-> "", awr |-> a, valid |-> FALSE]

\* Question._save (question.py:140-162): the text stored under the key,
\* `old` being what it held; an auto question stores nothing.
_save(ty, awr, old) ==
    IF ty = "auto" THEN old
    ELSE IF ty = "boolean" THEN lower(awr.v)
    ELSE IF awr.t = "none" THEN Txt_null
    ELSE awr.v

NoReturn == [t |-> "unset", v |-> <<>>]

NotAsked(ty, key, text, inter) ==
    [pc |-> "new", type |-> ty, key |-> key, interactive |-> inter,
     stored |-> text, stored0 |-> text,
     default |-> PyNone, tries |-> 0, invalid |-> 0, typed |-> <<>>,
     last |-> PyNone, prompts |-> 0, io |-> <<>>, calls |-> <<>>, saved |-> NoReturn,
     ret |-> NoReturn, exc |-> ""]

\* Question.__init__ (question.py:71-80)
QuestionNew ==
    /\ bq.pc = "new"
    /\ bq' = IF bq.type \notin _valid_types
                \/ (~bq.key /\ bq.type # "auto")
             THEN [bq EXCEPT !.pc = "done", !.exc = "InvalidQuestion"]
             ELSE [bq EXCEPT !.pc = "ask"]
    /\ UNCHANGED <<srvVars, cliVars, issVars, tlsVars, conVars, hv, chk>>

\* question.py:198-203
QuestionAsk ==
    /\ bq.pc = "ask"
    /\ bq' = [bq EXCEPT !.pc = "loop",
                        !.default = _load(bq.type, bq.stored),
                        !.io = IF bq.type = "auto" THEN @
                               ELSE Append(@, "get")]
    /\ UNCHANGED <<srvVars, cliVars, issVars, tlsVars, conVars, hv, chk>>

\* question.py:208-214: what ask() runs for a valid answer, in order.
ask_order_SaveFirst == <<"_save", "yes/no", "after">>

ask_order == <<"yes/no", "_save", "after">>

\* The calls of `order` run on b for the validated answer awr; `failing`
\* is the call that raises, if any.
RECURSIVE run(_, _, _, _)
run(order, b, awr, failing) ==
    IF order = <<>> THEN [b EXCEPT !.pc = "done", !.ret = awr]
    ELSE LET s == Head(order)
             name == IF s = "yes/no"
                     THEN (IF IsTrue(awr) THEN "yes" ELSE "no") ELSE s
             c == [b EXCEPT !.calls = Append(@, name)]
         IN  IF s = failing
             THEN [c EXCEPT !.pc = "done", !.exc = "CallError"]
             ELSE IF s = "_save"
             THEN run(Tail(order),
                      [c EXCEPT !.stored = _save(b.type, awr, b.stored),
                                !.saved = awr,
                                !.io = IF b.type = "auto" THEN @
                                       ELSE Append(@, "set")],
                      awr, failing)
             ELSE run(Tail(order), c, awr, failing)

\* One iteration of the loop of ask() (question.py:205-218): the answer is
\* True for an auto question, else what the operator types when the
\* question is interactive, else the default.
QuestionIteration ==
    /\ bq.pc = "loop"
    /\ \E typed \in (IF bq.interactive /\ bq.type # "auto"
                     THEN TypedTexts ELSE {<<>>}),
          failing \in {"", "yes/no", "_save", "after"} :
         LET a == IF bq.type = "auto" THEN PyBool(TRUE)
                  ELSE IF typed = <<>> THEN bq.default ELSE PyStr(typed)
             r == _validate(bq.type, a)
             b == [bq EXCEPT !.tries = @ + 1, !.typed = typed, !.last = a,
                             !.prompts = IF bq.interactive /\ bq.type # "auto"
                                         THEN @ + 1 ELSE @]
         IN  IF r.exc # ""
             THEN failing = "" /\ bq' = [b EXCEPT !.pc = "done", !.exc = r.exc]
             ELSE IF r.valid
             THEN bq' = run(ask_order, b, r.awr, failing)
             ELSE /\ failing = ""
                  /\ IF bq.tries + 1 = _retries
                     THEN bq' = [b EXCEPT !.pc = "done", !.invalid = @ + 1,
                                          !.exc = "InvalidAnswer"]
                     ELSE bq' = [b EXCEPT !.invalid = @ + 1]
    /\ UNCHANGED <<srvVars, cliVars, issVars, tlsVars, conVars, hv, chk>>

QuestionIdle == bq = NotAsked("boolean", TRUE, Txt_null, FALSE)

(***************************************************************************)
(* The hostname of a token through ConnectionString._validate              *)
(* (clustering.py:96-114, 144-173).                                        *)
(***************************************************************************)
\* Labels: good ones, the longest allowed and one longer, numeric, empty,
\* with a hyphen inside, in front and at the end, with a character that is
\* no letter, digit or hyphen, and with a newline at the end.
Labels ==
    {<<"a">>, <<"a", "1">>, <<"1">>, <<>>, <<"a", "-", "b">>, <<"-", "a">>,
     <<"a", "-">>, <<"a", "_">>, <<"a", "newline">>,
     Fill("a", MAX_LABEL_LEN), Fill("a", MAX_LABEL_LEN + 1)}

Dotted(x, y) == x \o <<".">> \o y

\* Names of 189 + 3 + n characters.
LongName(n) ==
    Dotted(Fill("a", MAX_LABEL_LEN),
           Dotted(Fill("b", MAX_LABEL_LEN),
                  Dotted(Fill("c", MAX_LABEL_LEN), Fill("d", n))))

HostnamePool ==
    LET names == Labels
                 \cup {Dotted(x, y) : x \in Labels, y \in Labels}
                 \cup {LongName(n) : n \in {MAX_LABEL_LEN - 3,
                                            MAX_LABEL_LEN - 2,
                                            MAX_LABEL_LEN - 1}}
                 \cup {<<"1", ".", "1", ".", "1", ".", "1">>,
                       <<"2", "5", "6", ".", "1", ".", "1", ".", "1">>,
                       <<"1", ".", "1", ".", "1">>,
                       <<":", ":", "1">>, <<"f", "e", "8", "0", ":", ":">>,
                       <<":", ":", "g">>}
    IN  {TNone} \cup {TStr(x) : x \in names}
        \cup {TStr(x \o <<".">>) : x \in names}

\* clustering.py:96-114 for the hostname of a token.
ValidateHostname ==
    /\ hv.verdict = ""
    /\ hv' = [hv EXCEPT !.verdict = IF hostname_ok(hv.hostname)
                                    THEN "accepted" ELSE "rejected"]
    /\ UNCHANGED <<srvVars, cliVars, issVars, tlsVars, conVars, bq, chk>>

HostnameIdle == hv = [hostname |-> TNone, verdict |-> ""]

(***************************************************************************)
(* launch: check_server() of tools/launch/launch/main.py, polling          *)
(* `openstack server list` for the server it created.                      *)
(***************************************************************************)
max_retries == 10
max_waits == 1000

\* What a poll finds for server_id in the list: no entry, or the Status of
\* its entry (empty, one of the three the loop names, or another one).
ListStatuses == {"absent", "", "BUILD", "ERROR", "ACTIVE", "SHUTOFF"}

\* main.py:106: the call with its arguments, before its first statement.
NotChecking(w, r) ==
    [pc |-> "call", wait |-> w, retry |-> r, status |-> "", retries |-> 0,
     waits |-> 0, server_id |-> 1, deletes |-> 0, polls |-> 0]

\* main.py:107-113
CheckServerStart ==
    /\ chk.pc = "call"
    /\ chk' = [chk EXCEPT !.pc = "loop", !.status = "Unknown",
                          !.retries = 0, !.waits = 0]
    /\ UNCHANGED <<srvVars, cliVars, issVars, tlsVars, conVars, bq, hv>>

\* One iteration of `while True` (main.py:115-155).  polls is the number of
\* calls of `openstack server list` modulo 2; a failing command raises out
\* of check_server.
CheckServerIteration ==
    /\ chk.pc = "loop"
    /\ \E listed \in ListStatuses \cup {"CalledProcessError"},
          recreated \in BOOLEAN :
         LET polled == [chk EXCEPT !.polls = 1 - @]
             status == IF listed = "absent" THEN chk.status ELSE listed
             c == [polled EXCEPT !.status = status]
             stuck == status = "BUILD" /\ chk.waits > max_waits
             d == [c EXCEPT !.status = IF stuck THEN "BUILD (stuck)" ELSE @]
         IN  chk' =
               IF listed = "CalledProcessError"
               THEN [polled EXCEPT !.pc = "raised"]
               ELSE IF status = "" THEN [c EXCEPT !.pc = "done"]
               ELSE IF ~chk.wait /\ ~chk.retry THEN [c EXCEPT !.pc = "done"]
               ELSE IF status = "BUILD" /\ chk.waits <= max_waits
               THEN [c EXCEPT !.waits = @ + 1]
               ELSE IF d.status \in {"ERROR", "BUILD (stuck)"}
               THEN IF ~chk.retry \/ chk.retries > max_retries
                    THEN [d EXCEPT !.pc = "done"]
                    ELSE IF ~recreated
                    THEN [d EXCEPT !.pc = "raised"]
                    ELSE [d EXCEPT !.deletes = @ + 1, !.server_id = @ + 1,
                                   !.waits = 0, !.retries = @ + 1]
               ELSE IF d.status = "ACTIVE" THEN [d EXCEPT !.pc = "done"]
               ELSE d
    /\ UNCHANGED <<srvVars, cliVars, issVars, tlsVars, conVars, bq, hv>>

LaunchIdle == chk = NotChecking(FALSE, FALSE)


(***************************************************************************)
(* Specifications.                                                         *)
(***************************************************************************)
NodeIdle ==
    /\ config = NodeConfig("control", EmptyAnswer)
    /\ ipc = "off"
    /\ interactive = FALSE
    /\ tries = 0
    /\ answer = EmptyAnswer
    /\ conn_info = <<>>
    /\ net = <<>>
    /\ outcome = ""
    /\ sent_at = 0
    /\ wire = NoWire

\* A control node that has its certificate, before any add-compute.
IssuerIdle ==
    /\ clock = 0
    /\ ctl = ControlConfig("control", <<"1", ".", "1", ".", "1", ".", "1">>,
                           cert_fprint(1))
    /\ creds = {}
    /\ idp_log = <<>>
    /\ printed = <<>>
    /\ add_out = <<>>

TlsIdle ==
    /\ disk = [cert |-> 1, key |-> 1]
    /\ prov = [p \in Calls |-> NotCalled]
    /\ keygen = 1

ServerIdle ==
    /\ req = NoReq
    /\ spc = "idle"
    /\ resp = NoResp
    /\ steps = <<>>
    /\ idpValid = Minted

Init ==
    /\ ServerIdle /\ NodeIdle /\ IssuerIdle /\ TlsIdle
    /\ HandlersIdle /\ QuestionIdle /\ HostnameIdle /\ LaunchIdle

Next ==
    \/ Receive
    \/ VersionCheck
    \/ ContentCheck
    \/ CredentialCheck
    \/ BuildAuth
    \/ BuildSession
    \/ BuildClient
    \/ CatalogCall
    \/ Respond
    \/ ExpireCredential

Spec == Init /\ [][Next]_vars

\* A node about to ask the ConnectionString question: any role, with or
\* without --join having stored a connection string, interactive or not.
InitNode ==
    /\ ServerIdle
    /\ interactive \in BOOLEAN
    /\ \E role \in Roles :
       \E raw \in (IF interactive THEN {EmptyAnswer, GoodToken}
                                  ELSE Answers \cup {EmptyAnswer}) :
         config = NodeConfig(role, raw)
    /\ ipc = "ask"
    /\ tries = 0
    /\ answer = EmptyAnswer
    /\ conn_info = <<>>
    /\ net = <<>>
    /\ outcome = ""
    /\ sent_at = 0
    /\ wire = NoWire
    /\ IssuerIdle
    /\ TlsIdle
    /\ HandlersIdle
    /\ QuestionIdle /\ HostnameIdle /\ LaunchIdle

NextNode ==
    \/ AskConnectionString
    \/ AskIteration
    \/ SetupRole
    \/ ClientJoin

SpecInit == InitNode /\ [][NextNode]_vars

\* A control node with its certificate and a compute node at the
\* ConnectionString question: add-compute prints connection strings and the
\* operator pastes them.
InitToken ==
    /\ req = NoReq /\ spc = "idle" /\ resp = NoResp /\ steps = <<>>
    /\ idpValid = {}
    /\ config = NodeConfig("compute", EmptyAnswer)
    /\ ipc = "ask"
    /\ interactive = TRUE
    /\ tries = 0
    /\ answer = EmptyAnswer
    /\ conn_info = <<>>
    /\ net = <<>>
    /\ outcome = ""
    /\ sent_at = 0
    /\ wire = NoWire
    /\ clock = 0
    /\ \E ip \in ControlIps, d \in CertDigests :
         ctl = ControlConfig("control", ip, hex(d))
    /\ creds = {}
    /\ idp_log = <<>>
    /\ printed = <<>>
    /\ add_out = <<>>
    /\ TlsIdle
    /\ HandlersIdle
    /\ QuestionIdle /\ HostnameIdle /\ LaunchIdle

NextToken ==
    \/ AddCompute
    \/ AskConnectionString
    \/ PasteToken

SpecToken == InitToken /\ [][NextToken]_vars

\* What a control node may hold when the provisioner is called: nothing yet,
\* a pair with its fingerprint, or what a call that was cut short left (the
\* fingerprint alone, or the fingerprint and the certificate).
Provisioned ==
    {[disk |-> NoFiles, fp |-> <<>>, keygen |-> 0],
     [disk |-> [cert |-> 1, key |-> 1], fp |-> cert_fprint(1), keygen |-> 1],
     [disk |-> NoFiles, fp |-> cert_fprint(1), keygen |-> 1],
     [disk |-> [cert |-> 1, key |-> 0], fp |-> cert_fprint(1), keygen |-> 1],
     [disk |-> [cert |-> 0, key |-> 1], fp |-> cert_fprint(1), keygen |-> 1]}

InitTLS ==
    /\ ServerIdle
    /\ NodeIdle
    /\ HandlersIdle
    /\ QuestionIdle /\ HostnameIdle /\ LaunchIdle
    /\ clock = 0
    /\ creds = {}
    /\ idp_log = <<>>
    /\ printed = <<>>
    /\ add_out = <<>>
    /\ prov = [p \in Calls |-> NotCalled]
    /\ \E s \in Provisioned :
         /\ disk = s.disk
         /\ keygen = s.keygen
         /\ ctl = ControlConfig("control", <<"1", ".", "1", ".", "1", ".", "1">>,
                                s.fp)

NextTLS ==
    \/ TlsCheck
    \/ TlsSetFingerprint
    \/ TlsWriteCert
    \/ TlsWriteKey
    \/ TlsInterrupt

SpecTLS == InitTLS /\ [][NextTLS]_vars

\* A node of any role, with its certificate, on which add-compute is run.
InitIssuer ==
    /\ req = NoReq /\ spc = "idle" /\ resp = NoResp /\ steps = <<>>
    /\ idpValid = {}
    /\ NodeIdle
    /\ clock = 0
    /\ \E role \in Roles \cup {"unset"}, ip \in ControlIps :
         ctl = ControlConfig(role, ip, cert_fprint(1))
    /\ creds = {}
    /\ idp_log = <<>>
    /\ printed = <<>>
    /\ add_out = <<>>
    /\ TlsIdle
    /\ HandlersIdle
    /\ QuestionIdle /\ HostnameIdle /\ LaunchIdle

NextIssuer ==
    \/ AddCompute
    \/ Tick

SpecIssuer == InitIssuer /\ [][NextIssuer]_vars

\* A control node with its certificate and its join server, and a compute
\* node at the ConnectionString question: add-compute mints tokens, time
\* passes, the operator pastes a token and the node joins, once or again.
InitCluster ==
    /\ req = NoReq /\ spc = "idle" /\ resp = NoResp /\ steps = <<>>
    /\ idpValid = {}
    /\ config = NodeConfig("compute", EmptyAnswer)
    /\ ipc = "ask"
    /\ interactive = TRUE
    /\ tries = 0
    /\ answer = EmptyAnswer
    /\ conn_info = <<>>
    /\ net = <<>>
    /\ outcome = ""
    /\ sent_at = 0
    /\ wire = NoWire
    /\ IssuerIdle
    /\ TlsIdle
    /\ HandlersIdle
    /\ QuestionIdle /\ HostnameIdle /\ LaunchIdle

NextCluster ==
    \/ AddCompute
    \/ Tick
    \/ AskConnectionString
    \/ PasteToken
    \/ SetupRole
    \/ JoinPost
    \/ VersionCheck
    \/ ContentCheck
    \/ CredentialCheck
    \/ BuildAuth
    \/ BuildSession
    \/ BuildClient
    \/ CatalogCall
    \/ Respond
    \/ JoinReceive

SpecCluster == InitCluster /\ [][NextCluster]_vars

\* The join server with NumRequests connections, the Identity Provider
\* holding the minted credential.
InitConcurrent ==
    /\ ServerIdle /\ NodeIdle /\ IssuerIdle /\ TlsIdle
    /\ HandlersIdle /\ QuestionIdle /\ HostnameIdle /\ LaunchIdle

NextConcurrent ==
    \/ HandlerReceive
    \/ HandlerParse
    \/ HandlerCredential
    \/ HandlerBuild
    \/ HandlerCatalog
    \/ HandlerRespond

SpecConcurrent == InitConcurrent /\ [][NextConcurrent]_vars

\* A question about to be constructed and asked: of any type, with or
\* without a config key, for any stored value of its key, interactive or not.
InitQuestion ==
    /\ ServerIdle /\ NodeIdle /\ IssuerIdle /\ TlsIdle
    /\ HandlersIdle /\ HostnameIdle /\ LaunchIdle
    /\ \E ty \in QuestionTypes, key \in BOOLEAN, text \in StoredTexts,
          inter \in BOOLEAN :
         bq = NotAsked(ty, key, text, inter)

NextQuestion ==
    \/ QuestionNew
    \/ QuestionAsk
    \/ QuestionIteration

SpecQuestion == InitQuestion /\ [][NextQuestion]_vars

\* A token whose hostname is any of the pool, about to be validated.
InitHostname ==
    /\ ServerIdle /\ NodeIdle /\ IssuerIdle /\ TlsIdle
    /\ HandlersIdle /\ QuestionIdle /\ LaunchIdle
    /\ \E h \in HostnamePool : hv = [hostname |-> h, verdict |-> ""]

NextHostname == ValidateHostname

SpecHostname == InitHostname /\ [][NextHostname]_vars

\* check_server() called with any --wait and --retry.  The loop is
\* sequential code of one process, which goes on running: its next
\* iteration is always taken.
InitLaunch ==
    /\ ServerIdle /\ NodeIdle /\ IssuerIdle /\ TlsIdle
    /\ HandlersIdle /\ QuestionIdle /\ HostnameIdle
    /\ \E w \in BOOLEAN, r \in BOOLEAN : chk = NotChecking(w, r)

NextLaunch ==
    \/ CheckServerStart
    \/ CheckServerIteration

SpecLaunch ==
    InitLaunch /\ [][NextLaunch]_vars /\ WF_vars(CheckServerStart)
               /\ WF_vars(CheckServerIteration)

(***************************************************************************)
(* Properties of the join server (specification Spec).                     *)
(***************************************************************************)
Did(s) == \E i \in 1..Len(steps) : steps[i] = s
Answered == spc = "done"
Is(e) == resp = handle_api_exception(e)

\* A header of exactly three numeric parts, major.minor.patch.
ThreePartVersion(h) ==
    /\ h # NoHeader
    /\ Len(h) = 3
    /\ h[1].num /\ h[2].num /\ h[3].num

AcceptedMajor ==
    ThreePartVersion(req.version) /\ req.version[1].val = API_VERSION_MAJOR
DeclaresJSON == req.ctype = "application/json"
HasCredentials ==
    /\ req.body.kind = "object"
    /\ Truthy(req.body.id)
    /\ Truthy(req.body.secret)
PassedContent == AcceptedMajor /\ DeclaresJSON /\ IsValidJSON(req.body)

\* C1: a 200 response, and the configuration snapshot, go only to a request
\* that passed the version, content and credential checks and whose
\* credential the Identity Provider accepted on the catalog call; join_info()
\* runs only after a catalog call that returned.
C1_SnapshotOnlyWhenAccepted ==
    /\ (resp.status = 200 \/ resp.config) =>
          /\ PassedContent /\ HasCredentials
          /\ Did("idp-call") /\ Did("ok")
    /\ Did("join_info") =>
          /\ Did("idp-call") /\ Did("ok")
          /\ \A o \in {"Unauthorized", "AuthorizationFailure", "ValueError",
                       "ConnectionError", "SSLError", "OtherError"} : ~Did(o)

C1_Witness == Answered /\ resp = ConfigResponse /\ Did("join_info")

\* C2: a semantic version with a major below the server's is answered 410
\* APIVersionDropped and one above it 501 APIVersionNotImplemented, whatever
\* the body, the content type and the credentials are.
C2_MajorPolicy ==
    (Answered /\ ThreePartVersion(req.version)) =>
        /\ req.version[1].val < API_VERSION_MAJOR =>
              Is("APIVersionDropped") /\ resp.status = 410
        /\ req.version[1].val > API_VERSION_MAJOR =>
              Is("APIVersionNotImplemented") /\ resp.status = 501

C2_Witness ==
    /\ Answered /\ resp.status = 501
    /\ DeclaresJSON /\ HasCredentials
    /\ <<req.body.id.v, req.body.secret.v>> \in idpValid

\* C3: a missing API-Version header is answered 400 APIVersionMissing and a
\* header that is not a three-part semantic version 400 APIVersionInvalid,
\* and nothing but the version was examined for that answer.
C3_MissingOrInvalidVersion ==
    Answered =>
        /\ req.version = NoHeader =>
              Is("APIVersionMissing") /\ resp.status = 400
        /\ (req.version # NoHeader /\ ~ThreePartVersion(req.version)) =>
              Is("APIVersionInvalid") /\ resp.status = 400
        /\ ~ThreePartVersion(req.version) => steps = <<"version">>

C3_Witness ==
    /\ Answered /\ Is("APIVersionInvalid")
    /\ req.version = <<Num(1), Num(0)>>
    /\ DeclaresJSON /\ HasCredentials

\* C4 (the claim as stated): a request that passed the version and content
\* checks and lacks a non-empty credential-id or credential-secret is
\* answered 400 with the JSON body {message} of MissingAuthDataInRequest.
C4_MissingAuthDataIs400 ==
    (Answered /\ PassedContent /\ req.body.kind = "object"
              /\ ~HasCredentials) =>
        /\ resp.status = 400
        /\ Is("MissingAuthDataInRequest")

\* C5: for a request that passed the version, content and credential checks,
\* an Unauthorized or AuthorizationFailure from the catalog call is answered
\* 401 AuthorizationFailed, without configuration data and without
\* join_info() having run.
C5_AuthFailureIs401 ==
    (Answered /\ (Did("Unauthorized") \/ Did("AuthorizationFailure"))) =>
        /\ PassedContent /\ HasCredentials
        /\ Is("AuthorizationFailed") /\ resp.status = 401
        /\ ~resp.config
        /\ ~Did("join_info")

C5_Witness == Answered /\ Did("Unauthorized") /\ resp.status = 401

\* C6 (the claim as stated): every construction error (auth object,
\* session, client) and every transport or protocol error of the catalog
\* call is answered 500 UnexpectedError.
C6_AllProviderErrorsAre500 ==
    (Answered /\ (Did("auth-failed") \/ Did("session-failed")
                  \/ Did("client-failed") \/ Did("ValueError")
                  \/ Did("ConnectionError") \/ Did("SSLError"))) =>
        Is("UnexpectedError") /\ resp.status = 500

\* C6 (amended): a failure to build the session or the client, and a
\* ValueError, ConnectionError or SSLError of the catalog call, are answered
\* 500 UnexpectedError; a failure to build the auth object is answered 400
\* InvalidAuthDataInRequest.
C6_ProviderErrors ==
    Answered =>
        /\ (Did("session-failed") \/ Did("client-failed") \/ Did("ValueError")
            \/ Did("ConnectionError") \/ Did("SSLError")) =>
              Is("UnexpectedError") /\ resp.status = 500
        /\ Did("auth-failed") =>
              Is("InvalidAuthDataInRequest") /\ resp.status = 400

C6_Witness ==
    /\ Answered /\ Did("auth-failed") /\ resp.status = 400
    /\ PassedContent /\ HasCredentials

\* C7: with an accepted major version, a request whose content type is
\* missing or not application/json is answered 400 IncorrectContentType
\* without its body being parsed, so never InvalidJSONInRequest.
C7_ContentTypeBeforeJSON ==
    (Answered /\ AcceptedMajor /\ ~DeclaresJSON) =>
        /\ Is("IncorrectContentType") /\ resp.status = 400
        /\ ~Did("parse-json")

C7_Witness ==
    /\ Answered /\ Is("IncorrectContentType")
    /\ req.version = <<Num(1), Num(0), Num(0)>>
    /\ req.ctype = "text/plain"
    /\ req.body.kind = "notjson"

\* C8 (the claim as stated): with an accepted major version and Content-Type
\* application/json, a body that is not valid JSON is answered 400
\* InvalidJSONInRequest and every body that is valid JSON reaches the
\* credential check.
C8_ValidJSONReachesCredentialCheck ==
    (Answered /\ AcceptedMajor /\ DeclaresJSON) =>
        /\ ~IsValidJSON(req.body) =>
              Is("InvalidJSONInRequest") /\ resp.status = 400
        /\ IsValidJSON(req.body) =>
              /\ Did("credential")
              /\ ~Is("IncorrectContentType")
              /\ ~Is("InvalidJSONInRequest")

(***************************************************************************)
(* Properties of the ConnectionString question and the join client,        *)
(* (specification SpecInit).                                               *)
(***************************************************************************)
IsTokenMap(a) == a.b64 = "ok" /\ loads(a.payload).map
Field(a, key) == get(loads(a.payload).obj, key)

\* The field is there and its length is not n.
LengthIsNot(x, n) == x.t # "none" /\ len(x) # n
\* The field is not there, or its length is not n.
NotOfLength(x, n) == x.t = "none" \/ len(x) # n

NothingStored ==
    /\ conn_info = <<>>
    /\ config.hostname = <<>> /\ config.fingerprint = <<>>
    /\ config.credential_id = <<>> /\ config.credential_secret = <<>>

\* C9: once _validate has been given a token whose fingerprint is not 32
\* bytes long or whose credential id or secret is not 32 characters long,
\* the question has not accepted it (the loop goes on, or the run has ended
\* on InvalidAnswer or on the escaping TypeError), none of its fields is
\* stored and no network call has been made; when the field is present with
\* a wrong length, no exception hides the rejection.
C9_WrongLengthRejected ==
    (tries > 0 /\ IsTokenMap(answer)) =>
        /\ (\/ NotOfLength(Field(answer, Chr_fingerprint), DIGEST_SIZE)
            \/ NotOfLength(Field(answer, Chr_id), UUID_LEN)
            \/ NotOfLength(Field(answer, Chr_secret), SECRET_LEN)) =>
              /\ ipc \in {"loop", "done"}
              /\ outcome \in {"", "InvalidAnswer", "TypeError"}
              /\ NothingStored
              /\ net = <<>>
        /\ (/\ Field(answer, Chr_fingerprint).t # "none"
            /\ \/ LengthIsNot(Field(answer, Chr_fingerprint), DIGEST_SIZE)
               \/ LengthIsNot(Field(answer, Chr_id), UUID_LEN)
               \/ LengthIsNot(Field(answer, Chr_secret), SECRET_LEN)) =>
              outcome \in {"", "InvalidAnswer"}

C9_Witness ==
    /\ outcome = "InvalidAnswer" /\ tries = _retries
    /\ IsTokenMap(answer)
    /\ Field(answer, Chr_hostname) = GoodHostname
    /\ Field(answer, Chr_fingerprint) = TBin(Fill(171, DIGEST_SIZE - 1))
    /\ Field(answer, Chr_id) = GoodId
    /\ Field(answer, Chr_secret) = GoodSecret
    /\ net = <<>>

\* The text a network call carries is the token's value.
SameText(sent, x) == x.t = "str" /\ sent = x.v

\* C10 (the claim as stated): a network call is made only for a token that
\* validated and whose fields are stored, it uses exactly the token's
\* hostname, fingerprint (in hex), id and secret, and a run in which every
\* attempt failed validation makes no network call.
C10_CallUsesValidatedToken ==
    /\ net # <<>> =>
          /\ Len(net) = 1
          /\ IsTokenMap(answer) /\ validated[answer].valid
          /\ conn_info = loads(answer.payload).obj
          /\ net[1] = join_call(config)
          /\ SameText(net[1].hostname, Field(answer, Chr_hostname))
          /\ Field(answer, Chr_fingerprint).t = "bytes"
          /\ net[1].fingerprint = hex(Field(answer, Chr_fingerprint).b)
          /\ SameText(net[1].credential_id, Field(answer, Chr_id))
          /\ SameText(net[1].credential_secret, Field(answer, Chr_secret))
    /\ outcome = "InvalidAnswer" => net = <<>>

(***************************************************************************)
(* Properties of the connection string (specification SpecToken).          *)
(***************************************************************************)
\* The dict a token decodes to for the fields it was made from.
Decoded(hostname, digest, id, sec) ==
    <<<<Chr_hostname, TStr(hostname)>>, <<Chr_fingerprint, TBin(digest)>>,
      <<Chr_id, TStr(id)>>, <<Chr_secret, TStr(sec)>>>>

\* The answer is the printed text of the token minted for c.
PastedTokenOf(c) == tries > 0 /\ answer = AnswerOf(connection_string(ctl, c))

\* C11: once the text add-compute printed for a credential has been given to
\* the ConnectionString question, the question has accepted it, the decoded
\* dict holds the control node's address as a str, the 32 bytes of its
\* fingerprint, and the credential's id and secret as str, and the fields
\* stored on the node are the address, the fingerprint in hex as the control
\* node stores it, the id and the secret.
C11_RoundTrip ==
    \A c \in creds :
       PastedTokenOf(c) =>
          /\ ipc = "role" /\ outcome = ""
          /\ \E d \in CertDigests :
                /\ hex(d) = ctl.fingerprint
                /\ conn_info = Decoded(ctl.control_ip, d, c.id, c.secret)
          /\ config.hostname = ctl.control_ip
          /\ config.fingerprint = ctl.fingerprint
          /\ config.credential_id = c.id
          /\ config.credential_secret = c.secret

C11_Witness ==
    /\ ipc = "role"
    /\ ctl.control_ip = <<":", ":", "1">>
    /\ ctl.fingerprint = hex(Fill(10, DIGEST_SIZE))
    /\ \E c \in creds :
         /\ PastedTokenOf(c)
         /\ c.secret = Fill("_", SECRET_LEN)
         /\ config.credential_secret = c.secret

(***************************************************************************)
(* Properties of the join client (specification SpecInit).                 *)
(***************************************************************************)
\* join() has run and ended.
JoinEnded == ipc = "done" /\ net # <<>>

\* The server the client reached presented a certificate whose fingerprint
\* is not the one stored from the token.
WrongCertificate == wire.peer # <<>> /\ wire.peer # net[Len(net)].fingerprint

\* The configuration join() writes is as it was before the call.
JoinWroteNothing ==
    /\ config.credentials = "local"
    /\ config.control_ip = "local"
    /\ config.control_plane = ""
    /\ config.hypervisor = ""

\* C12: when the server the join client reached presented a certificate
\* whose fingerprint differs from the token's, join() ends with the
\* fingerprint-mismatch error, not the generic connection failure; no
\* response was received and the node's configuration is as before the call.
C12_MismatchIsDistinct ==
    (JoinEnded /\ WrongCertificate) =>
        /\ outcome = "FingerprintMismatch"
        /\ wire.err = "SSLError" /\ wire.status = 0
        /\ JoinWroteNothing
        /\ config.fingerprint = net[Len(net)].fingerprint

C12_Witness ==
    /\ JoinEnded /\ WrongCertificate
    /\ outcome = "FingerprintMismatch"
    /\ net[1].fingerprint = hex(Fill(171, DIGEST_SIZE))
    /\ wire.peer = hex(Fill(10, DIGEST_SIZE))

\* C13 (the claim as stated): whenever join() ends in an error, whether a
\* transport failure, a status other than 200, or an empty, undecodable or
\* incomplete response, the node's configuration is what it was before the
\* call.
C13_NoPartialState ==
    (JoinEnded /\ outcome # "joined") => JoinWroteNothing

\* The ConnectionString question was asked and has completed.
QuestionCompleted == tries > 0 /\ ipc \in {"role", "join"}

\* C19 (the claim as stated): after the ConnectionString question completes,
\* the node's configuration holds the four parsed fields and no
\* configuration key holds the connection string itself.
C19_TokenNotPersisted ==
    QuestionCompleted =>
        /\ config.hostname = format(Field(answer, Chr_hostname))
        /\ config.fingerprint = hex(Field(answer, Chr_fingerprint).b)
        /\ config.credential_id = format(Field(answer, Chr_id))
        /\ config.credential_secret = format(Field(answer, Chr_secret))
        /\ config.raw # answer

(***************************************************************************)
(* Properties of the certificate provisioner (specification SpecTLS).      *)
(***************************************************************************)
\* Call p was made after call q had returned, and no other call was running
\* when q returned: the two were called in sequence.
InSequence(q, p) ==
    /\ q # p
    /\ Returned(q) /\ prov[q].quiet
    /\ Returned(p) /\ q \in prov[p].prev

\* C15: of two calls of the provisioner made in sequence, the second finds
\* in the configuration the fingerprint the first left there, which is the
\* one still there, and writes neither the certificate file, the key file
\* nor the fingerprint.
C15_SecondCallWritesNothing ==
    \A q \in Calls : \A p \in Calls :
       InSequence(q, p) =>
          /\ prov[p].writes = {}
          /\ prov[p].key = 0
          /\ prov[p].fp_ret = prov[q].fp_ret
          /\ (\A r \in Calls : ~Running(r)) => ctl.fingerprint = prov[q].fp_ret

C15_Witness ==
    \E q \in Calls : \E p \in Calls :
       /\ InSequence(q, p)
       /\ prov[q].writes = {"fingerprint", "cert", "key"}
       /\ prov[p].fp_ret = cert_fprint(prov[q].key)

\* C16 (the claim as stated): whatever the interleaving of calls that each
\* found no pair on disk, once all have returned the files hold one key and
\* the certificate made from it, and the fingerprint in the configuration is
\* that certificate's.
C16_OnePairSurvives ==
    (\A p \in Calls : Returned(p) /\ prov[p].key # 0) =>
        /\ disk.cert # 0
        /\ disk.key = disk.cert
        /\ ctl.fingerprint = cert_fprint(disk.cert)

(***************************************************************************)
(* Properties of add-compute (specification SpecIssuer).                   *)
(***************************************************************************)
Ran(o) == \E i \in 1..Len(add_out) : add_out[i] = o

\* C17: a run of add-compute succeeds only on a node whose role is
\* "control"; on a node of any other role every run fails, the Identity
\* Provider has not been called, no credential exists and nothing is
\* printed.
C17_ControlOnly ==
    /\ Ran("ok") => ctl.role = "control"
    /\ ctl.role # "control" =>
          /\ \A i \in 1..Len(add_out) : add_out[i] = "Exception"
          /\ idp_log = <<>>
          /\ creds = {}
          /\ idpValid = {}
          /\ printed = <<>>

C17_Witness ==
    /\ ctl.role = "compute"
    /\ Len(add_out) = 2
    /\ add_out[1] = "Exception"

\* C18: every credential the issuer has minted has exactly one access rule,
\* GET /v3/auth/catalog of the identity service, has unrestricted false, has
\* a secret of 32 characters, and has an expiration, which is the clock at
\* its issuance plus 20 minutes.
C18_CredentialShape ==
    \A c \in creds :
       /\ Len(c.access_rules) = 1
       /\ c.access_rules[1].method = "GET"
       /\ c.access_rules[1].path = "/v3/auth/catalog"
       /\ c.access_rules[1].service = "identity"
       /\ c.unrestricted = FALSE
       /\ Len(c.secret) = 32
       /\ c.expires_at # NoExpiry
       /\ c.expires_at[1] = c.issued_at + 20

C18_Witness ==
    /\ Cardinality(creds) = 2
    /\ \E c \in creds : c.issued_at > 0 /\ c.expires_at[1] > clock
    /\ \E c \in creds : c.issued_at = 0 /\ c.expires_at[1] <= clock

\* C20: no step of add-compute, successful or failed, changes a key of the
\* control node's configuration; the connection string is only printed.
C20_ConfigUntouched == [][ctl' = ctl]_vars

C20_Witness == Ran("ok") /\ Ran("IdPError") /\ printed # <<>>

(***************************************************************************)
(* Properties of a join from end to end (specification SpecCluster).       *)
(***************************************************************************)
\* The last run of the join client has been answered by the join server.
JoinAnswered == ipc = "done" /\ net # <<>> /\ wire.err = "" /\ wire.status # 0

\* c is the credential of the token the node holds.
TokenCredential(c) ==
    /\ c \in creds
    /\ c.id = config.credential_id
    /\ c.secret = config.credential_secret

\* t is 20 minutes or more after c was minted.
PastValidity(c, t) == t >= c.issued_at + 20

\* The Identity Provider answered the catalog call of the last request.
ProviderAnswered ==
    Did("ok") \/ Did("Unauthorized") \/ Did("AuthorizationFailure")

\* C14: with a token add-compute minted, a join the Identity Provider answers
\* while the credential is still valid gets the configuration snapshot and
\* ends with the credentials and control-ip of the control node set; a join
\* posted 20 minutes or more after the credential was minted never gets the
\* snapshot and, when the Identity Provider answers, gets 401
\* AuthorizationFailed, which the client reports as an unauthorized request;
\* the server answers by the Identity Provider's verdict alone.
C14_ExpiryEndToEnd ==
    JoinAnswered =>
      \A c \in creds : TokenCredential(c) =>
        /\ (~PastValidity(c, clock) /\ ProviderAnswered) =>
              \/ /\ resp = ConfigResponse
                 /\ outcome = "joined"
                 /\ config.credentials = "control"
                 /\ config.control_ip = "control"
              \/ Did("join_info") /\ resp = FrameworkError
        /\ PastValidity(c, sent_at) =>
              /\ resp.status # 200
              /\ outcome # "joined"
              /\ ProviderAnswered =>
                    /\ resp = handle_api_exception("AuthorizationFailed")
                    /\ outcome = "UnauthorizedRequestError(message)"
        /\ Did("ok") => resp \in {ConfigResponse, FrameworkError}
        /\ resp = ConfigResponse => Did("ok")

\* The node joined with a token, and its second join with the same token,
\* posted after the credential's 20 minutes, was refused with 401.
C14_Witness ==
    /\ JoinAnswered
    /\ Len(net) = 2 /\ net[1] = net[2]
    /\ config.credentials = "control" /\ config.control_ip = "control"
    /\ \E c \in creds : TokenCredential(c) /\ PastValidity(c, sent_at)
    /\ resp = handle_api_exception("AuthorizationFailed")
    /\ outcome = "UnauthorizedRequestError(message)"

(***************************************************************************)
(* Properties of the join client's handling of what it meets               *)
(* (specification SpecInit).                                               *)
(***************************************************************************)
\* join() failed before it had a response.
NoResponseReceived == wire.err # "" /\ wire.status = 0

\* C21: a run of join() sends at most one POST /join request: none before
\* it runs, and exactly one when it has ended, whether the request was
\* answered, met no server, or met a server whose certificate or TLS
\* session failed.
C21_SingleRoundTrip ==
    /\ Len(net) <= 1
    /\ ipc = "done" /\ outcome \in {"NoResponse", "FingerprintMismatch"}
          => Len(net) = 1 /\ NoResponseReceived

C21_Witness ==
    /\ JoinEnded /\ Len(net) = 1
    /\ outcome = "NoResponse"
    /\ wire.err = "ConnectionFailed"

\* join() ended on a response with status st.
JoinGot(st) == JoinEnded /\ wire.err = "" /\ wire.status = st

UnauthorizedErrors ==
    {"UnauthorizedRequestError", "UnauthorizedRequestError(message)"}

\* C22 (the claim as stated): on a 401 response join() ends with an
\* Unauthorized error, carrying the server's message when the body is not
\* empty and generic when it is, whatever the body is.
C22_UnauthorizedOn401 ==
    JoinGot(401) =>
        /\ outcome \in UnauthorizedErrors
        /\ wire.body = "empty" <=> outcome = "UnauthorizedRequestError"

\* The text that names a status.
NamesStatus(text, st) ==
    \/ st = 400 /\ text = "UnexpectedStatus 400"
    \/ st = 410 /\ text = "UnexpectedStatus 410"
    \/ st = 500 /\ text = "UnexpectedStatus 500"
    \/ st = 501 /\ text = "UnexpectedStatus 501"

\* C23: on a response whose status is neither 200 nor 401, join() ends with
\* the unexpected-status error naming that status, whatever the body is, and
\* has written nothing of it to the configuration.
C23_OtherStatusIsUnexpected ==
    \A st \in Statuses \ {200, 401} :
       JoinGot(st) => NamesStatus(outcome, st) /\ JoinWroteNothing

C23_Witness ==
    /\ JoinGot(500)
    /\ wire.body = "badutf8"
    /\ outcome = "UnexpectedStatus 500"

\* C24 (the claim as stated): on a 200 response join() ends with the
\* empty-response error for an empty body, with the invalid-encoding error
\* for a body that is not UTF-8 or not JSON, and otherwise has written the
\* credentials and control-ip of the response to the configuration.
C24_OkResponseHandling ==
    JoinGot(200) =>
        CASE wire.body = "empty" -> outcome = "EmptyResponse"
          [] wire.body \in {"badutf8", "notjson"} -> outcome = "InvalidUTF8"
          [] OTHER -> /\ config.credentials = "control"
                      /\ config.control_ip = "control"

(***************************************************************************)
(* Properties of the join server's responses (specification Spec).         *)
(***************************************************************************)
\* The response is a JSON {message} body of one of the API's errors.
IsMessageBody(r) == r.json /\ ~r.config /\ r.message \in APIExceptions

\* C25 (the claim as stated): every response of POST /join has a status in
\* {200, 400, 401, 410, 500, 501}, and every response whose status is not 200
\* has a JSON body of the form {message: string}.
C25_ResponseShape ==
    Answered =>
        /\ resp.status \in {200, 400, 401, 410, 500, 501}
        /\ resp.status # 200 => IsMessageBody(resp)

\* A failure of the Identity Provider's client was met with detail d.
FailedWith(d) == Answered /\ d \in FailureDetails /\ Did(d)

\* The one response of each kind of failure.
FixedResponse ==
    IF Did("auth-failed")
    THEN [status |-> 400, json |-> TRUE,
          message |-> "InvalidAuthDataInRequest", config |-> FALSE]
    ELSE IF Did("Unauthorized") \/ Did("AuthorizationFailure")
    THEN [status |-> 401, json |-> TRUE,
          message |-> "AuthorizationFailed", config |-> FALSE]
    ELSE IF Did("OtherError")
    THEN [status |-> 500, json |-> FALSE,
          message |-> "Internal Server Error", config |-> FALSE]
    ELSE [status |-> 500, json |-> TRUE,
          message |-> "UnexpectedError", config |-> FALSE]

\* C26: the response to a request that met a failure of the Identity
\* Provider's client is the fixed response of that kind of failure, the same
\* for every detail of the failure, and the detail is not in it.
C26_NoDetailForwarded ==
    \A d \in FailureDetails :
       FailedWith(d) => resp = FixedResponse /\ resp.message # d

C26_Witness ==
    /\ FailedWith("name not known")
    /\ Did("ConnectionError")
    /\ resp.status = 500 /\ resp.message = "UnexpectedError"

(***************************************************************************)
(* Properties of the join server under concurrent requests                 *)
(* (specification SpecConcurrent).                                         *)
(***************************************************************************)
\* The response to request r served alone, for what its handler met: the
\* outcome b of the builds, o of the catalog call and ok of join_info.
alone(r, b, o, ok) ==
    IF early_response(r) # NoResp THEN early_response(r)
    ELSE IF ~Truthy(r.body.id) \/ ~Truthy(r.body.secret)
    THEN MissingAuthDataResult
    ELSE IF b # "ok" THEN build_response(b)
    ELSE IF ~CatalogReturned(o) THEN CatalogResponse(o)
    ELSE IF ok THEN ConfigResponse ELSE FrameworkError

\* The handler on connection w holds in its locals the credentials of its
\* own request.
OwnLocals(w) ==
    handlers[w].pc \in {"credential", "build", "catalog"} =>
        /\ frames[w].id = handlers[w].req.body.id
        /\ frames[w].secret = handlers[w].req.body.secret

\* The handler on connection w answered as it would have answered alone.
AsAlone(w) ==
    LET h == handlers[w]
    IN  h.pc = "done" =>
          /\ h.resp = alone(h.req, h.build, h.o, h.info)
          /\ h.o # "" => h.o \in IdPOutcomes(h.req.body.id, h.req.body.secret)

\* C27: in every interleaving of concurrent requests, each response is the
\* one its request gets when served alone against the same Identity
\* Provider and configuration, each handler works on the credentials of its
\* own request, and no step of a handler changes the Identity Provider's
\* credentials, the control node's configuration or another handler's
\* locals.
C27_NoSharedState ==
    /\ [](\A w \in Conns : OwnLocals(w) /\ AsAlone(w))
    /\ [][/\ idpValid' = idpValid
          /\ ctl' = ctl
          /\ \A w \in Conns :
                handlers'[w] = handlers[w] => frames'[w] = frames[w]]_vars

\* Two requests handled at once: the one with the minted credential got the
\* configuration while the one with an unknown credential was refused.
C27_Witness ==
    /\ handlers[1].pc = "done" /\ handlers[2].pc = "catalog"
    /\ handlers[1].resp = handle_api_exception("AuthorizationFailed")
    /\ handlers[2].req.body.id # handlers[1].req.body.id
    /\ frames[2].id = PyStr(Fill("a", UUID_LEN))

(***************************************************************************)
(* Properties of hostname validation (specification SpecHostname).         *)
(***************************************************************************)
IsLetter(c) ==
    \E k \in 1..Len(UpperCase) : c = UpperCase[k] \/ c = LowerCase[k]
IsDigit(c) == c \in {"0", "1", "2", "3", "4", "5", "6", "7", "8", "9"}

\* A label of 1 to 63 letters, digits and hyphens with no hyphen in front or
\* at the end.
GoodLabel(x) ==
    /\ Len(x) \in 1..63
    /\ \A i \in 1..Len(x) : IsLetter(x[i]) \/ IsDigit(x[i]) \/ x[i] = "-"
    /\ x[1] # "-" /\ x[Len(x)] # "-"

\* A DNS name: not empty, at most 253 characters without one trailing dot,
\* good labels, and a last label that is not all digits.
GoodDnsName(h) ==
    /\ h # <<>>
    /\ LET name == IF h[Len(h)] = "." THEN SubSeq(h, 1, Len(h) - 1) ELSE h
           labels == split(name, ".")
           tld == labels[Len(labels)]
       IN  /\ Len(name) <= 253
           /\ \A i \in 1..Len(labels) : GoodLabel(labels[i])
           /\ \E i \in 1..Len(tld) : ~IsDigit(tld[i])

IsAddress(h) == valid_ipv4(h) \/ valid_ipv6(h)

\* C28 (the claim as stated): the hostname of a token is accepted if and
\* only if it is an IPv4 or IPv6 literal or else a valid DNS name.
C28_HostnameIff ==
    hv.verdict # "" =>
        (hv.verdict = "accepted" <=>
            /\ hv.hostname.t = "str"
            /\ IsAddress(hv.hostname.v) \/ GoodDnsName(hv.hostname.v))

\* The same, leaving aside labels that end with a newline.
HostnameIffButNewline ==
    (\A i \in 1..len(hv.hostname) : hv.hostname.v[i] # "newline")
        => C28_HostnameIff

(***************************************************************************)
(* Properties of the join server's treatment of versions                   *)
(* (specification Spec).                                                   *)
(***************************************************************************)
\* What the handler of the request met, read from its steps.
BuildMet ==
    IF Did("auth-failed") THEN "auth-failed"
    ELSE IF Did("session-failed") THEN "session-failed"
    ELSE IF Did("client-failed") THEN "client-failed"
    ELSE "ok"

\* The request with minor and patch version 0.
SameMajor(r) == [r EXCEPT !.version = <<Num(r.version[1].val), Num(0), Num(0)>>]

\* C29: a request whose major version is the server's gets the response
\* that the request with minor and patch version 0, otherwise the same and
\* meeting the same outcomes, gets: the minor and patch parts of API-Version
\* have no effect on the status or the body.
C29_MinorPatchIgnored ==
    (Answered /\ ThreePartVersion(req.version) /\ req.version[1].val = 1) =>
        \E ok \in BOOLEAN, o \in {"ok", "Unauthorized", "AuthorizationFailure",
                                  "ValueError", "ConnectionError", "SSLError",
                                  "OtherError"} :
           /\ Did("idp-call") => Did(o)
           /\ resp = alone(SameMajor(req), BuildMet, o, ok)

C29_Witness ==
    /\ Answered
    /\ req.version = <<Num(1), Num(1), Num(1)>>
    /\ resp = ConfigResponse

(***************************************************************************)
(* Properties of a boolean question (specification SpecQuestion).          *)
(***************************************************************************)
\* The spellings of yes and of no.
SaysYes(a) ==
    /\ a.t = "str"
    /\ \/ Len(a.v) = 1 /\ a.v[1] \in {"y", "Y"}
       \/ /\ Len(a.v) = 3
          /\ a.v[1] \in {"y", "Y"} /\ a.v[2] \in {"e", "E"}
          /\ a.v[3] \in {"s", "S"}

SaysNo(a) ==
    /\ a.t = "str"
    /\ \/ Len(a.v) = 1 /\ a.v[1] \in {"n", "N"}
       \/ Len(a.v) = 2 /\ a.v[1] \in {"n", "N"} /\ a.v[2] \in {"o", "O"}

\* C30: ask() of a boolean question returns True when the answer is a
\* spelling of yes or y and False when it is a spelling of no or n, in any
\* case of the letters; it raises InvalidAnswer when and only when three
\* answers in a row were invalid, and then the stored value is what it was
\* and yes(), no(), _save() and after() have not run.
C30_BooleanAsk ==
    bq.type = "boolean" =>
    /\ (bq.tries > 0 /\ SaysYes(bq.last) /\ bq.exc = "") =>
          /\ bq.pc = "done" /\ bq.ret = PyBool(TRUE)
          /\ bq.calls = <<"yes", "_save", "after">>
    /\ (bq.tries > 0 /\ SaysNo(bq.last) /\ bq.exc = "") =>
          /\ bq.pc = "done" /\ bq.ret = PyBool(FALSE)
          /\ bq.calls = <<"no", "_save", "after">>
    /\ bq.ret # NoReturn => SaysYes(bq.last) \/ SaysNo(bq.last)
    /\ bq.exc = "InvalidAnswer" <=> bq.invalid = 3
    /\ bq.exc = "InvalidAnswer" =>
          /\ bq.pc = "done" /\ bq.ret = NoReturn
          /\ bq.calls = <<>>
          /\ bq.stored = bq.stored0

C30_Witness ==
    /\ bq.type = "boolean"
    /\ bq.pc = "done"
    /\ bq.last = PyStr(<<"Y", "e", "s">>)
    /\ bq.ret = PyBool(TRUE)
    /\ bq.tries = 3 /\ bq.invalid = 2

\* Three invalid answers ended the question.
C30_WitnessInvalid ==
    /\ bq.type = "boolean"
    /\ bq.exc = "InvalidAnswer"
    /\ bq.last = PyStr(<<"f", "o", "o">>)

(***************************************************************************)
(* Properties of string and auto questions and of the order of the calls   *)
(* of ask() (specification SpecQuestion).                                  *)
(***************************************************************************)
\* An iteration of ask() has run and no yes(), no(), _save() or after()
\* raised.
Iterated == bq.tries > 0 /\ bq.exc # "CallError"

\* C31 (the claim as stated): ask() of a string question returns the answer
\* the operator typed, unchanged, when it is not empty, and returns and
\* saves the default loaded from the configuration when the answer is blank
\* or the question is not interactive.
C31_StringAsk ==
    (bq.type = "string" /\ Iterated) =>
        /\ bq.pc = "done"
        /\ bq.typed # <<>> => bq.ret = PyStr(bq.typed)
        /\ bq.typed = <<>> => bq.ret = bq.default /\ bq.saved = bq.default

\* The same for answers that are not a spelling of nil and defaults that
\* are not null.
StringAskButNil ==
    (lower(bq.last.v) # Txt_nil /\ bq.last # PyNone) => C31_StringAsk

\* C32: ask() of an auto question returns True in its first iteration
\* without prompting the operator, runs yes(), and neither reads nor
\* writes the configuration; a question whose _type is not boolean, string
\* or auto is refused with InvalidQuestion by the constructor, before
\* anything is asked.
C32_AutoAsk ==
    /\ bq.type = "auto" =>
          /\ bq.prompts = 0 /\ bq.io = <<>> /\ bq.stored = bq.stored0
          /\ bq.tries <= 1
          /\ bq.tries = 1 =>
                /\ bq.pc = "done" /\ Head(bq.calls) = "yes"
                /\ bq.exc = "" => bq.ret = PyBool(TRUE)
    /\ bq.type \notin {"boolean", "string", "auto"} =>
          /\ bq.pc \in {"new", "done"}
          /\ bq.pc = "done" => bq.exc = "InvalidQuestion"
          /\ bq.tries = 0 /\ bq.prompts = 0 /\ bq.io = <<>> /\ bq.calls = <<>>

C32_Witness ==
    /\ bq.type = "auto" /\ bq.interactive /\ ~bq.key
    /\ bq.ret = PyBool(TRUE) /\ bq.calls = <<"yes", "_save", "after">>

C32_WitnessInvalid ==
    bq.type = "foo" /\ bq.pc = "done" /\ bq.exc = "InvalidQuestion"

\* The calls ask() makes for the validated answer awr, in order.
CallsFor(awr) == <<IF IsTrue(awr) THEN "yes" ELSE "no", "_save", "after">>

\* C36: for a valid answer ask() runs yes() or no(), then _save(), then
\* after(), once each, and the value given to _save() is the validated
\* answer; when yes() or no() raises nothing has been saved; an invalid
\* answer triggers none of yes(), no(), _save() and after().
C36_AskOrder ==
    LET r == _validate(bq.type, bq.last)
        answered == bq.tries > 0 /\ r.exc = "" /\ r.valid
    IN  /\ bq.calls # <<>> =>
              /\ answered
              /\ Len(bq.calls) <= 3
              /\ bq.calls = SubSeq(CallsFor(r.awr), 1, Len(bq.calls))
        /\ (answered /\ bq.exc = "") =>
              bq.calls = CallsFor(r.awr) /\ bq.ret = r.awr
        /\ bq.saved # NoReturn => bq.saved = r.awr /\ Len(bq.calls) >= 2
        /\ (bq.exc = "CallError" /\ Len(bq.calls) = 1) =>
              /\ bq.saved = NoReturn /\ bq.stored = bq.stored0
              /\ \A k \in 1..Len(bq.io) : bq.io[k] # "set"
        /\ ~answered =>
              bq.calls = <<>> /\ bq.saved = NoReturn /\ bq.stored = bq.stored0

C36_Witness ==
    /\ bq.type = "boolean" /\ bq.invalid = 1 /\ bq.exc = ""
    /\ bq.calls = <<"no", "_save", "after">> /\ bq.saved = PyBool(FALSE)
    /\ bq.stored0 = Txt_true /\ bq.stored = Txt_false

C36_WitnessRaised ==
    /\ bq.type = "string" /\ bq.exc = "CallError" /\ bq.calls = <<"yes">>
    /\ bq.saved = NoReturn

(***************************************************************************)
(* The order of the checks of POST /join (specification Spec).             *)
(***************************************************************************)
\* The index of step s in the handler's history, 0 when it did not happen.
At(s) == IF Did(s) THEN CHOOSE i \in 1..Len(steps) : steps[i] = s ELSE 0

\* The request in hand fails the version, the content or the credential
\* check, read from the request alone.
FailsVersion == ~ThreePartVersion(req.version) \/ req.version[1].val # 1
FailsContent ==
    req.ctype # "application/json" \/ req.body.kind \in {"notjson", "empty", "null"}
FailsCredential ==
    \/ req.body.kind # "object"
    \/ req.body.id \in {PyNone, PyStr(<<>>)}
    \/ req.body.secret \in {PyNone, PyStr(<<>>)}

\* The handler contacted the Identity Provider or read the configuration.
WentOutside ==
    \/ Did("idp-call") \/ Did("join_info")
    \/ Did("auth") \/ Did("auth-failed") \/ Did("session") \/ Did("client")

\* C33: POST /join runs the version check, the content check, the
\* credential check, the call of the Identity Provider and the reading of
\* the configuration in this order, and the first check that fails ends the
\* request: a request that fails the version, content or credential check
\* never reaches the Identity Provider or the configuration.
C33_CheckOrder ==
    /\ spc # "idle" /\ steps # <<>> => steps[1] = "version"
    /\ Did("content-type") => At("version") < At("content-type") /\ ~FailsVersion
    /\ Did("credential") =>
          /\ At("content-type") > 0 /\ At("content-type") < At("credential")
          /\ ~FailsVersion /\ ~FailsContent
    /\ Did("idp-call") =>
          /\ At("credential") > 0 /\ At("credential") < At("idp-call")
          /\ At("auth") > At("credential") /\ At("auth") < At("idp-call")
    /\ Did("join_info") =>
          /\ At("idp-call") > 0 /\ At("idp-call") < At("join_info")
          /\ steps[At("idp-call") + 1] = "ok"
          /\ At("join_info") = Len(steps)
    /\ FailsVersion => ~Did("content-type") /\ ~Did("credential")
    /\ FailsContent => ~Did("credential")
    /\ (FailsVersion \/ FailsContent \/ FailsCredential) => ~WentOutside
    /\ (Answered /\ FailsVersion) => steps = <<"version">>
    /\ (Answered /\ ~FailsVersion /\ FailsContent) =>
          steps[Len(steps)] \in {"content-type", "parse-json"}
    /\ (Answered /\ ~FailsVersion /\ ~FailsContent /\ FailsCredential) =>
          steps[Len(steps)] = "credential"

C33_Witness ==
    /\ Answered /\ steps = <<"version", "content-type", "parse-json", "credential">>
    /\ req.body.kind = "object" /\ req.body.id = PyStr(Fill("a", UUID_LEN))
    /\ req.body.secret = PyStr(<<>>)

C33_WitnessAll == Answered /\ Did("join_info") /\ resp = ConfigResponse

(***************************************************************************)
(* Failures of ConnectionString._validate (specification SpecInit).        *)
(***************************************************************************)
\* The last answer given to _validate is base64 text.
Base64Answer == tries > 0 /\ answer.b64 \in {"ok", "malformed"}

\* C34 (the claim as stated): whatever base64 text is entered, a failure of
\* the decoding or of the validation of a field makes _validate return
\* not-valid; no exception leaves _validate.
C34_ValidationNeverRaises ==
    Base64Answer => validated[answer].exc = ""

\* The answers for which an exception leaves _validate: a decoded value
\* that is not a map, and a map without a fingerprint.
ValidationRaisesOnlyFor ==
    (Base64Answer /\ validated[answer].exc # "") =>
        LET l == loads(answer.payload)
        IN  \/ ~l.map /\ validated[answer].exc = "AttributeError"
            \/ /\ l.map /\ get(l.obj, Chr_fingerprint).t = "none"
               /\ validated[answer].exc = "TypeError"

(***************************************************************************)
(* The two connection errors of the join client (specification SpecInit).  *)
(***************************************************************************)
\* The join client ran and urlopen raised MaxRetryError.
JoinFailedToConnect == Len(net) > 0 /\ wire.err # ""

\* The server reached presented a certificate whose fingerprint is not the
\* one of the token.
Mismatch == wire.peer # <<>> /\ wire.peer # config.fingerprint

\* C35 (the claim as stated): a connection failure that is not a
\* fingerprint mismatch is reported as the generic error, never as a
\* fingerprint mismatch.
C35_GenericNeverMismatch ==
    (JoinFailedToConnect /\ ~Mismatch) => outcome = "NoResponse"

\* The same for failures before any TLS session is attempted.
GenericWhenNoConnection ==
    (JoinFailedToConnect /\ wire.err = "ConnectionFailed") =>
        outcome = "NoResponse"

(***************************************************************************)
(* The pair on disk after calls of the provisioner in sequence             *)
(* (specification SpecTLS).                                                *)
(***************************************************************************)
\* No two calls overlapped: of any two calls made, one had returned or had
\* been cut short when the other began.
OneAtATime ==
    \A p \in Calls : \A q \in Calls \ {p} :
       (prov[p].pc # "idle" /\ prov[q].pc # "idle") =>
           q \in prov[p].prev \/ p \in prov[q].prev

\* C37 (the claim as stated): after calls made one after the other, some
\* of them cut short between their writes, from any files on disk, when
\* both files exist the key is the key of the certificate and the
\* fingerprint in the configuration is that of the certificate.
C37_PairOnDiskMatches ==
    (OneAtATime /\ (\A p \in Calls : ~Running(p)) /\ pair_exists(disk)) =>
        /\ disk.key = disk.cert
        /\ ctl.fingerprint = cert_fprint(disk.cert)

\* The same for calls that run to their end.
PairMatchesWhenNotCutShort ==
    (\A p \in Calls : ~Killed(p)) => C37_PairOnDiskMatches

(***************************************************************************)
(* The join client's request at the join server (specification             *)
(* SpecCluster).                                                           *)
(***************************************************************************)
\* The responses of the version and content checks.
EarlyRefusals ==
    {handle_api_exception(e) :
        e \in {"APIVersionMissing", "APIVersionInvalid", "APIVersionDropped",
               "APIVersionNotImplemented", "InvalidJSONInRequest",
               "IncorrectContentType"}}

\* The credentials a node's configuration may hold when microstack_join
\* runs, an unset one being empty.
StoredCredentials == {<<>>, Fill("a", UUID_LEN), Fill("s", SECRET_LEN)}

\* C38: a request built by the join client has the major version of the
\* server, the content type application/json and a JSON object as its body,
\* so it passes the version and the content check of the join server
\* whatever credentials the node holds; the answer to a client's join is
\* then that of the credential check or of what follows it, with status
\* 200, 400, 401 or 500.
C38_ClientPassesChecks ==
    /\ \A i \in StoredCredentials, x \in StoredCredentials :
          LET r == join_request([credential_id |-> i, credential_secret |-> x])
          IN  /\ version_verdict(r.version) = "ok"
              /\ request_json(r).result = "object"
    /\ spc # "idle" =>
          /\ req = join_request(config)
          /\ spc \notin {"version", "content"} =>
                /\ SubSeq(steps, 1, 3) = <<"version", "content-type", "parse-json">>
                /\ resp \notin EarlyRefusals
          /\ Answered =>
                /\ Did("credential")
                /\ resp.status \in {200, 400, 401, 500}
    /\ (ipc = "done" /\ wire.err = "" /\ wire.peer # <<>>) =>
          wire.status \in {200, 400, 401, 500}

C38_Witness ==
    /\ ipc = "done" /\ wire.err = "" /\ wire.status = 401
    /\ req = join_request(config) /\ Did("idp-call")

(***************************************************************************)
(* The tokens add-compute prints, at the ConnectionString question         *)
(* (specification SpecToken).                                              *)
(***************************************************************************)
\* The control node advertises a valid IP literal or DNS name and stores
\* the fingerprint as the 64 hex digits of a SHA-256 digest.
ControlNodeWellFormed ==
    /\ IsAddress(ctl.control_ip) \/ GoodDnsName(ctl.control_ip)
    /\ IsHexText(ctl.fingerprint) /\ Len(ctl.fingerprint) = 2 * DIGEST_SIZE

\* C39: on such a control node every token add-compute printed is accepted
\* by the validation of the ConnectionString question; the secret of every
\* credential issued has exactly 32 characters and its id has 32, the
\* lengths the validation requires.
C39_PrintedTokensAccepted ==
    ControlNodeWellFormed =>
        /\ \A k \in 1..Len(printed) :
              LET r == validate(AnswerOf(printed[k]))
              IN  r.valid /\ r.exc = ""
        /\ \A c \in creds :
              /\ Len(c.secret) = 32 /\ Len(c.id) = 32
              /\ validate_credential_secret(TStr(c.secret)) = ""
              /\ validate_credential_id(TStr(c.id)) = ""
        /\ (tries > 0 /\ \E k \in 1..Len(printed) : answer = AnswerOf(printed[k]))
              => ipc = "role" /\ outcome = ""

C39_Witness ==
    /\ ControlNodeWellFormed /\ Len(printed) = 2 /\ printed[1] # printed[2]
    /\ ctl.control_ip = <<"n", "-", "1", ".", "a", "b">>
    /\ tries > 0 /\ answer = AnswerOf(printed[2]) /\ ipc = "role"
    /\ \E c \in creds : c.secret = Fill("_", SECRET_LEN)

(***************************************************************************)
(* Termination of check_server (specification SpecLaunch).                 *)
(***************************************************************************)
Waiting == chk.pc = "loop" /\ (chk.wait \/ chk.retry)
CheckServerEnded == chk.pc \in {"done", "raised"}

\* C40 (the claim as stated): with --wait or --retry check_server() ends
\* whatever statuses the server list reports, also when the server never
\* appears in it or has a status other than BUILD, ERROR and ACTIVE.
C40_CheckServerTerminates == [](Waiting => <>CheckServerEnded)

\* It ends unless the status it holds is again and again neither BUILD,
\* ERROR nor ACTIVE.
EndsUnlessOtherStatus ==
    [](Waiting => <>(CheckServerEnded \/ chk.status \in {"Unknown", "SHUTOFF"}))

\* The server is deleted and created again at most max_retries + 1 times,
\* and only with --retry.
RetriesBounded ==
    /\ chk.deletes <= max_retries + 1
    /\ chk.deletes = chk.retries
    /\ ~chk.retry => chk.deletes = 0

\* The claim's bound on the retries.
RetriesWithinMax == chk.deletes <= max_retries

====
